---- MODULE Spec2Model ----
(***************************************************************************)
(* Tab Monitor Closer, background service worker                           *)
(* (src/Chrome-ext-chat5-v3/background.js).                                *)
(*                                                                         *)
(* The worker is single threaded and event driven: every action below is   *)
(* one callback (an event listener, a storage/host callback, a timer) run  *)
(* to completion.  chrome.storage.local is written by the worker only and  *)
(* serves requests in the order they are issued, so a get is read at the   *)
(* moment it is issued and a set takes effect at the moment it is issued.  *)
(* Times are milliseconds (Date.now()).                                    *)
(***************************************************************************)
EXTENDS Integers, Sequences, FiniteSets, TLC

\* ---------------------------------------------------------------- bounds
MaxTabs == 3
MaxTicks == 2
MaxQueue == 1
MaxEnsures == 2
MaxCollects == 4
MaxScans == 1
MaxScanTabs == 2
MaxRestores == 1
MaxClosures == 2
MaxGets == 2

\* ------------------------------------------------------ program constants
DEFAULT_THRESHOLD_HOURS == 24
DEFAULT_THRESHOLD_MINUTES == 0
DEFAULT_CHECK_INTERVAL_MINUTES == 60
MAX_HISTORY == 50
GUARD_TIMEOUT_MS == 60000

MsPerMinute == 60 * 1000
MsPerHour == 60 * 60 * 1000

\* The clock advances in minutes and starts above zero, as Date.now().
TickMs == MsPerMinute
StartMs == TickMs
EndMs == StartMs + MaxTicks * TickMs

TabIds == 1..MaxTabs
ScanIds == 1..MaxScans

\* An absent value (null / undefined) is the empty tuple, a present one <<v>>.
Null == << >>
Some(v) == <<v>>

\* ------------------------------------------------------------- URLs
\* A URL is kept as a string; UrlChars gives its characters for matching.
Urls == {"https://a.test/", "https-://a.test/"}

UrlChars(u) ==
  CASE u = "https://a.test/" -> <<"h","t","t","p","s",":","/","/","a",".","t","e","s","t","/">>
    [] u = "http://a.test/" -> <<"h","t","t","p",":","/","/","a",".","t","e","s","t","/">>
    [] u = "HTTPS://A.TEST/" -> <<"H","T","T","P","S",":","/","/","A",".","T","E","S","T","/">>
    [] u = "https-://a.test/" -> <<"h","t","t","p","s","-",":","/","/","a",".","t","e","s","t","/">>
    [] u = "chrome://newtab/" -> <<"c","h","r","o","m","e",":","/","/","n","e","w","t","a","b","/">>
    [] u = "ftp://a.test/" -> <<"f","t","p",":","/","/","a",".","t","e","s","t","/">>
    [] OTHER -> << >>

LowerChar(c) ==
  CASE c = "H" -> "h" [] c = "T" -> "t" [] c = "P" -> "p" [] c = "S" -> "s"
    [] c = "A" -> "a" [] c = "E" -> "e" [] OTHER -> c

\* pattern matched at the start of the string, ignoring case
PrefixMatchI(chars, pat) ==
  /\ Len(chars) >= Len(pat)
  /\ \A i \in 1..Len(pat) : LowerChar(chars[i]) = pat[i]

\* /^https-:\/\//i : the literal prefix "https-://"
isHttpLike(url) ==
  PrefixMatchI(UrlChars(url), <<"h","t","t","p","s","-",":","/","/">>)

\* ------------------------------------------------------------- maps
MapPut(m, k, v) == [x \in (DOMAIN m) \cup {k} |-> IF x = k THEN v ELSE m[x]]
MapDel(m, k) == [x \in (DOMAIN m) \ {k} |-> m[x]]

RemoveAt(seq, i) == SubSeq(seq, 1, i - 1) \o SubSeq(seq, i + 1, Len(seq))

\* ------------------------------------------------------------- state
VARIABLES
  now,                  \* Date.now()
  tabs,                 \* host: tab id -> [url, pinned, audible]; url "unopened" or
                        \* "closed" for a tab that does not exist
  openTimes,            \* storage.local openTimes: tab id -> ms
  thresholdHours,       \* storage.sync thresholdHours (Null when unset)
  thresholdMinutes,     \* storage.sync thresholdMinutes (Null when unset)
  closedHistory,        \* storage.local closedHistory, newest first
  htmlLogEntries,       \* storage.local htmlLogEntries, newest first
  undoMap,              \* storage.local undoMap: notification id -> entry
  badgeCount,           \* storage.local badgeCount
  alarm,                \* host: period of the "checkTabs" alarm, Null when none
  ensureQueue,          \* ensureCheckAlarm: sync.get requests awaiting their callback
  checkInProgress,
  checkGuardTimer,      \* Null, or <<time the watchdog was armed>>
  scans,                \* the activations of checkTabsNow and their closures
  openTimesWriteChain,
  historyWriteChain,
  badgeWriteChain,
  undoWriteChain,
  logQueue,             \* addToHistory: htmlLogEntries requests awaiting their callback
  notifs,               \* host: notification id -> its state and payload
  restoring,            \* restores in flight (sessions.restore / tabs.create)
  reopened,             \* host: notification id -> tabs reopened by its Undo button;
                        \* under 0, the tabs reopened from the history panel
  restoredShown,        \* host: notification id -> "Restored tab" notifications created
                        \* by its restore; under 0, by those of the history panel
  restoreCmd,           \* the restoreClosed message being handled
  pendingBatchEntries,
  batchFlushTimer,      \* the timer handle: armed or not
  flushTimers,          \* host: number of armed batch timeouts
  batchFlushChain,      \* flushes chained on batchFlushChain, the first one running
  delivered,            \* adapters: the batches handed over, in order
  probe,                \* a page: the metrics record last taken from it and its judgment,
                        \* and the window state the injected functions keep
  manual,               \* the manual command being handled (export, e-mail, chat)
  reply,                \* runtime.onMessage: the last response sent with sendResponse
  openTimesGets,        \* Chrome-ext-chat5/background.js: the gets of openTimes issued
                        \* by its tab listeners and awaiting their callback
  seeding               \* onInstalled / onStartup: tabs.query requests awaiting their
                        \* callback, each with the tabs it returns

storeVars == <<openTimes, closedHistory, htmlLogEntries, undoMap, badgeCount>>
cfgVars == <<thresholdHours, thresholdMinutes, alarm, ensureQueue>>
scanVars == <<checkInProgress, checkGuardTimer, scans>>
chainVars == <<openTimesWriteChain, historyWriteChain, badgeWriteChain, undoWriteChain, logQueue>>
undoVars == <<notifs, restoring, reopened, restoredShown, restoreCmd>>
batchVars == <<pendingBatchEntries, batchFlushTimer, flushTimers, batchFlushChain, delivered>>
sideVars == <<manual, reply, openTimesGets, seeding>>
vars ==
  <<now, tabs, storeVars, cfgVars, scanVars, chainVars, undoVars, batchVars, probe, sideVars>>

\* ------------------------------------------------ responses (747-925)
\* what a message handler passes to sendResponse: { ok: true, ...data } or
\* { ok: false, error }
Reply(ok, error, data) == [ok |-> ok, error |-> error, data |-> data]

\* no response was sent yet
NoReply == Reply(FALSE, "", Null)

OkReply == Reply(TRUE, "", Null)

Failure(msg) == Reply(FALSE, msg, Null)

\* ------------------------------------------------------- write chains
\* chain = chain.catch().then(() => new Promise(get -> mutate -> set -> resolve)):
\* an operation issues its get when every earlier one has resolved.  Operations
\* that resolved are dropped from the sequence, so the first one is the one
\* running; `base` is what its get returned.
StartHead(chain, store) ==
  IF chain # << >> /\ chain[1].stage = "queued"
  THEN [chain EXCEPT ![1].stage = "read", ![1].base = store]
  ELSE chain

\* a call that issues the get of op at once, whatever is queued
ChainedEager(chain, op, store) ==
  Append(chain, [op EXCEPT !.stage = "read", !.base = store])

\* the chain after a call that appends operation op
Chained(chain, op, store) == StartHead(Append(chain, op), store)

\* the chain after its running operation resolved
Resolved(chain, store) == StartHead(Tail(chain), store)

Running(chain) == chain # << >> /\ chain[1].stage = "read"

\* ------------------------------------------------- open-time map (965-976)
\* operations that delete the entry whatever was asked for
OtOpDeleting(kind, key, fin) ==
  [kind |-> "delete", key |-> key, fin |-> fin, stage |-> "queued", base |-> << >>]

OtOp(kind, key, fin) ==
  [kind |-> kind, key |-> key, fin |-> fin, stage |-> "queued", base |-> << >>]

\* tab.lastAccessed || now (42, 74); an absent lastAccessed is 0
SeedValue(lastAccessed, t) == IF lastAccessed = 0 THEN t ELSE lastAccessed

\* the mutator of onStartup (70-76): an entry for each returned tab that has none
SeedMissing(map, seed, t) ==
  [x \in (DOMAIN map) \cup (DOMAIN seed) |->
     IF x \in DOMAIN map THEN map[x] ELSE SeedValue(seed[x], t)]

\* the map onInstalled builds (36-43): an entry for each returned tab
SeedAll(seed, t) == [x \in DOMAIN seed |-> SeedValue(seed[x], t)]

\* seed: returned tab id -> its lastAccessed
SeedOp(seed) ==
  [kind |-> "seed", key |-> 0, fin |-> 0, stage |-> "queued", base |-> << >>, seed |-> seed]

\* mutators whose set leaves the map as it is
OtMutateNoReset(op, map, t) ==
  IF op.kind = "set" THEN map
  ELSE IF op.kind = "seed" THEN SeedMissing(map, op.seed, t)
  ELSE MapDel(map, op.key)

\* mutators whose delete leaves the entry in place
OtMutateKeeping(op, map, t) ==
  IF op.kind = "set" THEN MapPut(map, op.key, t)
  ELSE IF op.kind = "seed" THEN SeedMissing(map, op.seed, t)
  ELSE map

\* the mutators passed to updateOpenTimes: openTimes[id] = Date.now() / delete /
\* the seeding of onStartup
OtMutate(op, map, t) ==
  IF op.kind = "set" THEN MapPut(map, op.key, t)
  ELSE IF op.kind = "seed" THEN SeedMissing(map, op.seed, t)
  ELSE MapDel(map, op.key)

\* the same call without the chain: the get is issued at once
updateOpenTimesUnchained(chain, op, store) ==
  Append(chain, [op EXCEPT !.stage = "read", !.base = store])

updateOpenTimes(chain, op, store) == Chained(chain, op, store)

\* ------------------------------------------------ tab lifecycle (128-160)
Tab(url, pinned, audible) == [url |-> url, pinned |-> pinned, audible |-> audible]

\* the tabs a user may have: plain ones, a pinned one and one playing audio
TabKinds ==
  {Tab(u, FALSE, FALSE) : u \in Urls}
    \cup {Tab("https-://a.test/", TRUE, FALSE), Tab("https-://a.test/", FALSE, TRUE)}
NoTab(why) == [url |-> why, pinned |-> FALSE, audible |-> FALSE]

IsOpen(t) == tabs[t].url \in Urls

\* tabs.onCreated: openTimes[tab.id] = Date.now()
OnCreated(t) ==
  /\ tabs[t].url = "unopened"
  /\ Len(openTimesWriteChain) < MaxQueue
  /\ \E k \in TabKinds : tabs' = [tabs EXCEPT ![t] = k]
  /\ openTimesWriteChain' = updateOpenTimes(openTimesWriteChain, OtOp("set", t, 0), openTimes)
  /\ UNCHANGED <<now, storeVars, cfgVars, scanVars, historyWriteChain, badgeWriteChain,
                 undoWriteChain, logQueue, undoVars, batchVars, probe, sideVars>>

\* tabs.onUpdated with changeInfo.url or status "complete": the tab navigated
OnUpdated(t) ==
  /\ IsOpen(t)
  /\ Len(openTimesWriteChain) < MaxQueue
  /\ \E u \in Urls : tabs' = [tabs EXCEPT ![t].url = u]
  /\ openTimesWriteChain' = updateOpenTimes(openTimesWriteChain, OtOp("set", t, 0), openTimes)
  /\ UNCHANGED <<now, storeVars, cfgVars, scanVars, historyWriteChain, badgeWriteChain,
                 undoWriteChain, logQueue, undoVars, batchVars, probe, sideVars>>

\* tabs.onActivated
OnActivated(t) ==
  /\ IsOpen(t)
  /\ Len(openTimesWriteChain) < MaxQueue
  /\ openTimesWriteChain' = updateOpenTimes(openTimesWriteChain, OtOp("set", t, 0), openTimes)
  /\ UNCHANGED <<now, tabs, storeVars, cfgVars, scanVars, historyWriteChain, badgeWriteChain,
                 undoWriteChain, logQueue, undoVars, batchVars, probe, sideVars>>

\* the user closes a tab: tabs.onRemoved
OnRemoved(t) ==
  /\ IsOpen(t)
  /\ Len(openTimesWriteChain) < MaxQueue
  /\ tabs' = [tabs EXCEPT ![t] = NoTab("closed")]
  /\ openTimesWriteChain' = updateOpenTimes(openTimesWriteChain, OtOp("delete", t, 0), openTimes)
  /\ UNCHANGED <<now, storeVars, cfgVars, scanVars, historyWriteChain, badgeWriteChain,
                 undoWriteChain, logQueue, undoVars, batchVars, probe, sideVars>>

\* ------------------------------------------------ threshold (259-263)
\* Number(cfg.x) is NaN for an unset key; the defaults replace it.
ThresholdMs(hours, minutes) ==
  LET h == IF hours = Null THEN DEFAULT_THRESHOLD_HOURS ELSE hours[1]
      m == IF minutes = Null THEN DEFAULT_THRESHOLD_MINUTES
           ELSE IF minutes[1] > 0 THEN minutes[1] ELSE 0
  IN  h * MsPerHour + m * MsPerMinute

\* the test with `<` for `<=`: a tab exactly T old would go on
IsCandidateAtThreshold(opened, at, T) == ~(opened = 0 \/ at - opened < T)

\* line 291: the tabs of the snapshot that go on to chrome.tabs.get
IsCandidate(opened, at, T) == ~(opened = 0 \/ at - opened <= T)

\* a scan that goes on with every tracked tab
CandidatesAll(snap, at, T) == DOMAIN snap

Candidates(snap, at, T) == {t \in DOMAIN snap : IsCandidate(snap[t], at, T)}

\* ------------------------------------------------ checkTabsNow (227-392)
IdleScan ==
  [phase |-> "idle", snap |-> << >>, at |-> 0, T |-> 0,
   tpc |-> [t \in TabIds |-> "none"], turl |-> [t \in TabIds |-> ""],
   got |-> [t \in TabIds |-> ""]]

\* `pending` of an activation: the candidates whose callbacks have not all run
Pending(sc) == Cardinality({t \in TabIds : sc.tpc[t] # "none"})

\* pending--; maybeFinish() for tab t of activation s (267-285), applied to sc
maybeFinish(s, t, sc) ==
  LET sc2 == [sc EXCEPT ![s].tpc[t] = "none", ![s].turl[t] = "", ![s].got[t] = ""]
      fin == Pending(sc2[s]) = 0
  IN  /\ scans' = IF fin THEN [sc2 EXCEPT ![s] = IdleScan] ELSE sc2
      /\ checkInProgress' = IF fin THEN FALSE ELSE checkInProgress
      /\ checkGuardTimer' = IF fin THEN Null ELSE checkGuardTimer

\* lines 228-253: the guard, the flag, the watchdog, and the get of openTimes
checkTabsNow ==
  IF checkInProgress
  THEN UNCHANGED <<scanVars>>
  ELSE \E s \in DOMAIN scans :
         /\ scans[s].phase = "idle"
         /\ \A r \in DOMAIN scans : r < s => scans[r].phase # "idle"
         /\ checkInProgress' = TRUE
         /\ checkGuardTimer' = Some(now)
         /\ scans' = [scans EXCEPT ![s] = [IdleScan EXCEPT !.phase = "read", !.snap = openTimes]]

\* alarms.onAlarm "checkTabs"
OnAlarm ==
  /\ alarm # Null
  /\ checkTabsNow
  /\ UNCHANGED <<now, tabs, storeVars, cfgVars, chainVars, undoVars, batchVars, probe, sideVars>>

\* message runCheckNow
RunCheckNow ==
  /\ checkTabsNow
  /\ reply' = OkReply
  /\ UNCHANGED <<now, tabs, storeVars, cfgVars, chainVars, undoVars, batchVars, probe,
                 manual, openTimesGets, seeding>>

\* a watchdog that forgets its handle and leaves the flag set
GuardTimeoutKeepsFlag ==
  /\ checkGuardTimer # Null
  /\ now - checkGuardTimer[1] >= GUARD_TIMEOUT_MS
  /\ checkGuardTimer' = Null
  /\ UNCHANGED <<now, tabs, storeVars, cfgVars, checkInProgress, scans, chainVars, undoVars,
                 batchVars, probe, sideVars>>

\* the watchdog set at line 242 fires 60 s after it was armed
GuardTimeout ==
  /\ checkGuardTimer # Null
  /\ now - checkGuardTimer[1] >= GUARD_TIMEOUT_MS
  /\ checkInProgress' = FALSE
  /\ checkGuardTimer' = Null
  /\ UNCHANGED <<now, tabs, storeVars, cfgVars, scans, chainVars, undoVars, batchVars, probe, sideVars>>

\* lines 253-296 and 385-388: the callbacks of the two gets
ScanEvaluate(s) ==
  /\ scans[s].phase = "read"
  /\ LET T == ThresholdMs(thresholdHours, thresholdMinutes)
         c == Candidates(scans[s].snap, now, T)
         sc == [scans[s] EXCEPT !.phase = "run", !.at = now, !.T = T,
                                !.tpc = [t \in TabIds |-> IF t \in c THEN "get" ELSE "none"]]
     IN  IF c = {}
         THEN /\ scans' = [scans EXCEPT ![s] = IdleScan]
              /\ checkInProgress' = FALSE
              /\ checkGuardTimer' = Null
         ELSE /\ scans' = [scans EXCEPT ![s] = sc]
              /\ UNCHANGED <<checkInProgress, checkGuardTimer>>
  /\ UNCHANGED <<now, tabs, storeVars, cfgVars, chainVars, undoVars, batchVars, probe, sideVars>>

\* lines 308-310: the tabs the scan leaves alone
SkipsTab(tab) == tab.pinned \/ tab.audible \/ tab.url = "" \/ ~isHttpLike(tab.url)

\* lines 297-317: the callback of chrome.tabs.get
TabGetCallback(s, t) ==
  /\ scans[s].phase = "run"
  /\ scans[s].tpc[t] = "get"
  /\ IF ~IsOpen(t)
     THEN /\ openTimesWriteChain' =
               updateOpenTimes(openTimesWriteChain, OtOp("delete", t, s), openTimes)
          /\ scans' = [scans EXCEPT ![s].tpc[t] = "chain"]
          /\ UNCHANGED <<checkInProgress, checkGuardTimer>>
     ELSE IF SkipsTab(tabs[t])
     THEN /\ maybeFinish(s, t, scans)
          /\ UNCHANGED openTimesWriteChain
     ELSE /\ scans' = [scans EXCEPT ![s].tpc[t] = "script", ![s].turl[t] = tabs[t].url]
          /\ UNCHANGED <<checkInProgress, checkGuardTimer, openTimesWriteChain>>
  /\ UNCHANGED <<now, tabs, storeVars, cfgVars, historyWriteChain, badgeWriteChain,
                 undoWriteChain, logQueue, undoVars, batchVars, probe, sideVars>>

\* ------------------------------------------------ read/unread (342-345)
\* what the injected checkTabActivity function may return
MetricsSet ==
  [scrollY : {0, 5}, pageHeight : {100, 120, 121, 300}, viewHeight : {100},
   hasInteracted : BOOLEAN]

\* the test with `<` for `<=`: a page exactly 1.2 views high would be long
isShortPageStrict(m) == m.pageHeight * 10 < m.viewHeight * 12

\* metrics.pageHeight <= metrics.viewHeight * 1.2, in tenths
isShortPage(m) == m.pageHeight * 10 <= m.viewHeight * 12

isRead(m) == m.hasInteracted \/ (~isShortPage(m) /\ m.scrollY > 0)

\* ------------------------------------------------ records of a closure
\* restore = { sessionId, prev: { windowId, index } }; the tab's index is its id
RestoreHint(sid, t) == [sessionId |-> sid, prev |-> [windowId |-> 1, index |-> t]]

HistoryEntry(url, ts, restore) == [url |-> url, ts |-> ts, restore |-> restore]

NoEntry == [url |-> "", ts |-> 0, restore |-> RestoreHint("", 0)]

HistOp(entry) == [entry |-> entry, stage |-> "queued", base |-> << >>]
BadgeOp == [stage |-> "queued", base |-> 0]
UndoOp(kind, id, entry) ==
  [kind |-> kind, id |-> id, entry |-> entry, stage |-> "queued", base |-> << >>]

\* addToHistory (505-509): the entry is stamped at the call, the write is chained
addToHistory(chain, url, restore, store) ==
  Chained(chain, HistOp(HistoryEntry(url, now, restore)), store)

\* incrementBadgeCount (727-730)
incrementBadgeCount(chain, store) == Chained(chain, BadgeOp, store)

\* updateUndoMap (952-963)
updateUndoMap(chain, op, store) == Chained(chain, op, store)

NoNotif == [st |-> "none", entry |-> NoEntry]

\* the callback without the `if (!metrics)` return of 329-333
AfterScriptUnguarded(outcome, m) ==
  IF outcome = "error" THEN "reset"
  ELSE IF ~isRead(m) THEN "remove"
  ELSE "reset"

\* lines 319-347, 373: what the callback of executeScript does with its result:
\* "reset" the open time, "drop" the tab from this scan, or "remove" the tab
AfterScript(outcome, m) ==
  IF outcome = "error" THEN "reset"
  ELSE IF outcome = "noresult" THEN "drop"
  ELSE IF ~isRead(m) THEN "remove"
  ELSE "reset"

\* lines 318-347 and 373-380: the callback of executeScript(checkTabActivity)
ScriptCallback(s, t) ==
  /\ scans[s].phase = "run"
  /\ scans[s].tpc[t] = "script"
  /\ \E outcome \in (IF IsOpen(t) THEN {"error", "noresult", "metrics"} ELSE {"error"}),
        m \in MetricsSet :
       LET do == AfterScript(outcome, m)
       IN  IF do = "reset"
           THEN /\ openTimesWriteChain' =
                     updateOpenTimes(openTimesWriteChain, OtOp("set", t, s), openTimes)
                /\ scans' = [scans EXCEPT ![s].tpc[t] = "chain", ![s].got[t] = outcome]
                /\ UNCHANGED <<checkInProgress, checkGuardTimer>>
           ELSE IF do = "drop"
           THEN /\ maybeFinish(s, t, scans)
                /\ UNCHANGED openTimesWriteChain
           ELSE /\ scans' = [scans EXCEPT ![s].tpc[t] = "remove", ![s].got[t] = outcome]
                /\ UNCHANGED <<checkInProgress, checkGuardTimer, openTimesWriteChain>>
  /\ UNCHANGED <<now, tabs, storeVars, cfgVars, historyWriteChain, badgeWriteChain,
                 undoWriteChain, logQueue, undoVars, batchVars, probe, sideVars>>

\* a callback that takes every close for done
hadErrorIgnored(ok) == FALSE

\* line 354: const hadError = Boolean(chrome.runtime.lastError)
hadError(ok) == ~ok

\* lines 353-365: the callback of chrome.tabs.remove; a removed tab also raises
\* tabs.onRemoved (156-160)
RemoveCallback(s, t) ==
  /\ scans[s].phase = "run"
  /\ scans[s].tpc[t] = "remove"
  /\ \E ok \in (IF IsOpen(t) THEN BOOLEAN ELSE {FALSE}) :
       LET raised == IF ok
                     THEN updateOpenTimes(openTimesWriteChain, OtOp("delete", t, 0), openTimes)
                     ELSE openTimesWriteChain
       IN  /\ tabs' = IF ok THEN [tabs EXCEPT ![t] = NoTab("closed")] ELSE tabs
           /\ IF hadError(ok)
              THEN /\ maybeFinish(s, t, scans)
                   /\ openTimesWriteChain' = raised
              ELSE /\ openTimesWriteChain' =
                        updateOpenTimes(raised, OtOp("delete", t, 0), openTimes)
                   /\ scans' = [scans EXCEPT ![s].tpc[t] = "session"]
                   /\ UNCHANGED <<checkInProgress, checkGuardTimer>>
  /\ UNCHANGED <<now, storeVars, cfgVars, historyWriteChain, badgeWriteChain,
                 undoWriteChain, logQueue, undoVars, batchVars, probe, sideVars>>

\* lines 365-371: findSessionIdForUrl resolved (927-941), with a session id or null
SessionCallback(s, t) ==
  /\ scans[s].phase = "run"
  /\ scans[s].tpc[t] = "session"
  /\ \E sid \in {"", "sid"} :
       LET restore == RestoreHint(sid, t)
           url == scans[s].turl[t]
       IN  /\ historyWriteChain' = addToHistory(historyWriteChain, url, restore, closedHistory)
           /\ badgeWriteChain' = incrementBadgeCount(badgeWriteChain, badgeCount)
           \* notifyClosed (405-416): notifications.create is issued
           /\ notifs' = [notifs EXCEPT ![t] =
                           [st |-> "creating", entry |-> HistoryEntry(url, 0, restore)]]
  /\ maybeFinish(s, t, scans)
  /\ UNCHANGED <<now, tabs, storeVars, cfgVars, openTimesWriteChain, undoWriteChain,
                 logQueue, restoring, reopened, restoredShown, restoreCmd, batchVars, probe, sideVars>>

\* the get callback of the running updateOpenTimes operation: mutate, set, resolve
OpenTimesCallback ==
  /\ Running(openTimesWriteChain)
  /\ LET op == openTimesWriteChain[1]
         new == OtMutate(op, op.base, now)
     IN  /\ openTimes' = new
         /\ openTimesWriteChain' = Resolved(openTimesWriteChain, new)
         /\ IF op.fin # 0
            THEN maybeFinish(op.fin, op.key, scans)
            ELSE UNCHANGED <<scanVars>>
  /\ UNCHANGED <<now, tabs, closedHistory, htmlLogEntries, undoMap, badgeCount, cfgVars,
                 historyWriteChain, badgeWriteChain, undoWriteChain, logQueue, undoVars,
                 batchVars, probe, sideVars>>

\* ------------------------------------------------ history (505-532)
\* a write of the new entry onto a list read as empty
UnshiftAlone(list, entry) == <<entry>>

\* the unshift without the cap of 511
UnshiftUncapped(list, entry) == <<entry>> \o list

\* list.unshift(entry); if (list.length > MAX_HISTORY) list.length = MAX_HISTORY
Unshift(list, entry) ==
  LET l == <<entry>> \o list
  IN  IF Len(l) > MAX_HISTORY THEN SubSeq(l, 1, MAX_HISTORY) ELSE l

\* the get callback of the running addToHistory operation: unshift, cap, set
HistoryCallback ==
  /\ Running(historyWriteChain)
  /\ LET op == historyWriteChain[1]
     IN  /\ closedHistory' = Unshift(op.base, op.entry)
         /\ historyWriteChain' = [historyWriteChain EXCEPT ![1].stage = "set"]
  /\ UNCHANGED <<now, tabs, openTimes, htmlLogEntries, undoMap, badgeCount, cfgVars,
                 scanVars, openTimesWriteChain, badgeWriteChain, undoWriteChain, logQueue,
                 undoVars, batchVars, probe, sideVars>>

\* the set callback (514-529): the get of htmlLogEntries is issued, then resolve()
HistorySetCallback ==
  /\ historyWriteChain # << >>
  /\ historyWriteChain[1].stage = "set"
  /\ logQueue' = Append(logQueue, historyWriteChain[1].entry)
  /\ historyWriteChain' = Resolved(historyWriteChain, closedHistory)
  /\ UNCHANGED <<now, tabs, storeVars, cfgVars, scanVars, openTimesWriteChain,
                 badgeWriteChain, undoWriteChain, undoVars, batchVars, probe, sideVars>>

\* ------------------------------------------------ badge (727-744)
BadgeCallback ==
  /\ Running(badgeWriteChain)
  /\ badgeCount' = badgeWriteChain[1].base + 1
  /\ badgeWriteChain' = [badgeWriteChain EXCEPT ![1].stage = "set"]
  /\ UNCHANGED <<now, tabs, openTimes, closedHistory, htmlLogEntries, undoMap, cfgVars,
                 scanVars, openTimesWriteChain, historyWriteChain, undoWriteChain, logQueue,
                 undoVars, batchVars, probe, sideVars>>

BadgeSetCallback ==
  /\ badgeWriteChain # << >>
  /\ badgeWriteChain[1].stage = "set"
  /\ badgeWriteChain' = Resolved(badgeWriteChain, badgeCount)
  /\ UNCHANGED <<now, tabs, storeVars, cfgVars, scanVars, openTimesWriteChain,
                 historyWriteChain, undoWriteChain, logQueue, undoVars, batchVars, probe, sideVars>>

\* message resetBadge: resetBadgeCount writes 0 outside the chain
ResetBadge ==
  /\ badgeCount' = 0
  /\ reply' = OkReply
  /\ UNCHANGED <<now, tabs, openTimes, closedHistory, htmlLogEntries, undoMap, cfgVars,
                 scanVars, chainVars, undoVars, batchVars, probe, manual, openTimesGets, seeding>>

\* ------------------------------------------------ notification and undo
\* the callback of notifications.create (416-419): enqueueUndoMapPut(id, entry)
NotificationCreated(n) ==
  /\ notifs[n].st = "creating"
  /\ LET e == notifs[n].entry
     IN  undoWriteChain' =
           updateUndoMap(undoWriteChain,
                         UndoOp("put", n, HistoryEntry(e.url, now, e.restore)), undoMap)
  /\ notifs' = [notifs EXCEPT ![n] = [st |-> "shown", entry |-> NoEntry]]
  /\ UNCHANGED <<now, tabs, storeVars, cfgVars, scanVars, openTimesWriteChain,
                 historyWriteChain, badgeWriteChain, logQueue, restoring, reopened, restoredShown,
                 restoreCmd, batchVars, probe, sideVars>>

\* notifications.onButtonClicked, button 0 (423-426)
OnButtonClicked(n) ==
  /\ notifs[n].st = "shown"
  /\ Len(undoWriteChain) < MaxQueue
  /\ undoWriteChain' = updateUndoMap(undoWriteChain, UndoOp("click", n, NoEntry), undoMap)
  /\ UNCHANGED <<now, tabs, storeVars, cfgVars, scanVars, openTimesWriteChain,
                 historyWriteChain, badgeWriteChain, logQueue, undoVars, batchVars, probe, sideVars>>

\* the user dismisses the notification: notifications.onClosed (466-472)
OnClosed(n) ==
  /\ notifs[n].st = "shown"
  /\ notifs' = [notifs EXCEPT ![n].st = "closed"]
  /\ undoWriteChain' = updateUndoMap(undoWriteChain, UndoOp("close", n, NoEntry), undoMap)
  /\ UNCHANGED <<now, tabs, storeVars, cfgVars, scanVars, openTimesWriteChain,
                 historyWriteChain, badgeWriteChain, logQueue, restoring, reopened, restoredShown,
                 restoreCmd, batchVars, probe, sideVars>>

\* mutators that leave the entry in place on a click or a close
UndoMutateKeeping(op, map) ==
  IF op.kind = "put" THEN MapPut(map, op.id, op.entry) ELSE map

\* the three mutators passed to updateUndoMap (948, 427-460, 468-470)
UndoMutate(op, map) ==
  IF op.kind = "put" THEN MapPut(map, op.id, op.entry)
  ELSE IF op.id \in DOMAIN map THEN MapDel(map, op.id)
  ELSE map

\* lines 427-459: whether the click mutator starts a restore, and which
UndoStartsRestore(op, map) == op.kind = "click" /\ op.id \in DOMAIN map

RestoreStage(entry) == IF entry.restore.sessionId # "" THEN "session" ELSE "create"

\* no tabs.create is outstanding
NoOpts == [url |-> "", windowId |-> Null, index |-> Null]

\* createOpts taken from the hint's prev record
createOptsFromPrev(url, restore) ==
  [url |-> url, windowId |-> Some(restore.prev.windowId), index |-> Some(restore.prev.index)]

\* lines 436-439 and 450-453 (and 690-693, 704-707): createOpts = { url }, with
\* restore.windowId and restore.index where they are numbers
createOpts(url, restore) ==
  [url |-> url,
   windowId |-> IF "windowId" \in DOMAIN restore THEN Some(restore.windowId) ELSE Null,
   index |-> IF "index" \in DOMAIN restore THEN Some(restore.index) ELSE Null]

\* the options of the tabs.create a restore in stage `stage` has outstanding
OptsAt(stage, url, restore) == IF stage = "create" THEN createOpts(url, restore) ELSE NoOpts

NoRestore == [stage |-> "none", url |-> "", restore |-> RestoreHint("", 0), opts |-> NoOpts]

\* lines 429-431, 449: the restore the click mutator starts for `entry`
StartedRestore(entry) ==
  [stage |-> RestoreStage(entry), url |-> entry.url, restore |-> entry.restore,
   opts |-> OptsAt(RestoreStage(entry), entry.url, entry.restore)]

\* the get callback of the running updateUndoMap operation
UndoCallback ==
  /\ Running(undoWriteChain)
  /\ LET op == undoWriteChain[1]
         new == UndoMutate(op, op.base)
     IN  /\ undoMap' = new
         /\ undoWriteChain' = Resolved(undoWriteChain, new)
         /\ restoring' =
              IF UndoStartsRestore(op, op.base)
              THEN [restoring EXCEPT ![op.id] = StartedRestore(op.base[op.id])]
              ELSE restoring
  /\ UNCHANGED <<now, tabs, openTimes, closedHistory, htmlLogEntries, badgeCount, cfgVars,
                 scanVars, openTimesWriteChain, historyWriteChain, badgeWriteChain, logQueue,
                 notifs, reopened, restoredShown, restoreCmd, batchVars, probe, sideVars>>

\* a restore that shows no confirmation
notifyRestoredNever(n) == restoredShown' = restoredShown

\* notifyRestored (474-483): a "Restored tab" notification is created
notifyRestored(n) == restoredShown' = [restoredShown EXCEPT ![n] = @ + 1]

\* notifications.clear(id) at 441/445/456: the notification goes away, and the
\* host may raise onClosed for it
ClearNotification(n, raises) ==
  /\ notifs' = [notifs EXCEPT ![n].st = IF @ = "shown" THEN "closed" ELSE @]
  /\ undoWriteChain' =
       IF raises /\ notifs[n].st = "shown"
       THEN updateUndoMap(undoWriteChain, UndoOp("close", n, NoEntry), undoMap)
       ELSE undoWriteChain

\* the callback of chrome.sessions.restore (432-448)
UndoSessionCallback(n) ==
  /\ restoring[n].stage = "session"
  /\ \E restored \in BOOLEAN, raises \in BOOLEAN :
       IF restored
       THEN /\ reopened' = [reopened EXCEPT ![n] = @ + 1]
            /\ notifyRestored(n)
            /\ restoring' = [restoring EXCEPT ![n] = NoRestore]
            /\ ClearNotification(n, raises)
       ELSE /\ restoring' =
                 [restoring EXCEPT ![n].stage = "create",
                                   ![n].opts = createOpts(restoring[n].url, restoring[n].restore)]
            /\ UNCHANGED <<reopened, restoredShown, notifs, undoWriteChain>>
  /\ UNCHANGED <<now, tabs, storeVars, cfgVars, scanVars, openTimesWriteChain,
                 historyWriteChain, badgeWriteChain, logQueue, restoreCmd, batchVars, probe, sideVars>>

\* the callback of chrome.tabs.create (440-443, 455-458)
UndoCreateCallback(n) ==
  /\ restoring[n].stage = "create"
  /\ reopened' = [reopened EXCEPT ![n] = @ + 1]
  /\ notifyRestored(n)
  /\ restoring' = [restoring EXCEPT ![n] = NoRestore]
  /\ \E raises \in BOOLEAN : ClearNotification(n, raises)
  /\ UNCHANGED <<now, tabs, storeVars, cfgVars, scanVars, openTimesWriteChain,
                 historyWriteChain, badgeWriteChain, logQueue, restoreCmd, batchVars, probe, sideVars>>

\* ------------------------------------------------ history panel (900-923)
IdleCmd == [st |-> "idle", idx |-> 0, list |-> << >>, opts |-> NoOpts]

\* the indexes the popup may send with restoreClosed
IndexChoices == {-1, 0, 1, MAX_HISTORY - 1, MAX_HISTORY}

\* message restoreClosed: the get of closedHistory is issued
RestoreClosed(idx) ==
  /\ restoreCmd.st = "idle"
  /\ reopened[0] < MaxRestores
  /\ restoreCmd' = [st |-> "get", idx |-> idx, list |-> closedHistory, opts |-> NoOpts]
  /\ UNCHANGED <<now, tabs, storeVars, cfgVars, scanVars, chainVars, notifs, restoring,
                 reopened, restoredShown, batchVars, probe, sideVars>>

\* list[idx] of a JavaScript array: undefined outside 0..length-1
HasIndex(list, idx) == idx >= 0 /\ idx < Len(list)

\* a handler that returns at 911-914 without responding
restoreClosedMissingSilent(list, idx, last) == last

\* lines 910-914: the response when list[idx] is no entry, else none yet
restoreClosedMissing(list, idx, last) ==
  IF HasIndex(list, idx) THEN last ELSE Failure("Not found")

\* lines 907-915: the get callback; "Not found", or restoreFromHistory(entry)
RestoreGetCallback ==
  /\ restoreCmd.st = "get"
  /\ restoreCmd' =
       IF HasIndex(restoreCmd.list, restoreCmd.idx)
       THEN LET entry == restoreCmd.list[restoreCmd.idx + 1]
            IN  [restoreCmd EXCEPT !.st = RestoreStage(entry),
                                   !.opts = OptsAt(RestoreStage(entry), entry.url, entry.restore)]
       ELSE IdleCmd
  /\ reply' = restoreClosedMissing(restoreCmd.list, restoreCmd.idx, reply)
  /\ UNCHANGED <<now, tabs, storeVars, cfgVars, scanVars, chainVars, notifs, restoring,
                 reopened, restoredShown, batchVars, probe, manual, openTimesGets, seeding>>

\* the list written back without the splice
SpliceNothing(list, idx) == list

\* list.splice(idx, 1) (917)
Splice(list, idx) == RemoveAt(list, idx + 1)

\* restoreFromHistory resolved (695-700, 709-712); lines 916-920 follow
RestoreDone ==
  /\ reopened' = [reopened EXCEPT ![0] = @ + 1]
  /\ notifyRestored(0)
  /\ closedHistory' = Splice(restoreCmd.list, restoreCmd.idx)
  /\ restoreCmd' = IdleCmd
  /\ reply' = OkReply

\* the callback of chrome.sessions.restore in restoreFromHistory (687-702)
RestoreSessionCallback ==
  /\ restoreCmd.st = "session"
  /\ \E restored \in BOOLEAN :
       IF restored
       THEN RestoreDone
       ELSE /\ restoreCmd' =
                 LET entry == restoreCmd.list[restoreCmd.idx + 1]
                 IN  [restoreCmd EXCEPT !.st = "create",
                                        !.opts = createOpts(entry.url, entry.restore)]
            /\ UNCHANGED <<reopened, restoredShown, closedHistory, reply>>
  /\ UNCHANGED <<now, tabs, openTimes, htmlLogEntries, undoMap, badgeCount, cfgVars,
                 scanVars, chainVars, notifs, restoring, batchVars, probe, manual,
                 openTimesGets, seeding>>

\* the callback of chrome.tabs.create in restoreFromHistory
RestoreCreateCallback ==
  /\ restoreCmd.st = "create"
  /\ RestoreDone
  /\ UNCHANGED <<now, tabs, openTimes, htmlLogEntries, undoMap, badgeCount, cfgVars,
                 scanVars, chainVars, notifs, restoring, batchVars, probe, manual,
                 openTimesGets, seeding>>

\* message clearHistory (900-905)
ClearHistory ==
  /\ closedHistory' = << >>
  /\ reply' = OkReply
  /\ UNCHANGED <<now, tabs, openTimes, htmlLogEntries, undoMap, badgeCount, cfgVars,
                 scanVars, chainVars, undoVars, batchVars, probe, manual, openTimesGets, seeding>>

\* message getClosedHistory (799-808): the list and the badge count as stored
\* when the get is issued
GetClosedHistory ==
  /\ reply' = Reply(TRUE, "", <<closedHistory, badgeCount>>)
  /\ UNCHANGED <<now, tabs, storeVars, cfgVars, scanVars, chainVars, undoVars, batchVars,
                 probe, manual, openTimesGets, seeding>>

\* ------------------------------------------------ batching (577-618)
BatchEntry(e) == [url |-> e.url, ts |-> e.ts]

\* entries.sort((a, b) => (a.ts || 0) - (b.ts || 0)): a stable ascending sort
RECURSIVE InsertByTs(_, _)
InsertByTs(sorted, e) ==
  IF sorted = << >> THEN <<e>>
  ELSE IF sorted[Len(sorted)].ts <= e.ts THEN Append(sorted, e)
  ELSE Append(InsertByTs(SubSeq(sorted, 1, Len(sorted) - 1), e), sorted[Len(sorted)])

RECURSIVE SortByTs(_)
SortByTs(batch) ==
  IF batch = << >> THEN << >>
  ELSE InsertByTs(SortByTs(SubSeq(batch, 1, Len(batch) - 1)), batch[Len(batch)])

\* a flush that hands over the oldest entry only
FlushCaptureOldest(pend) == <<SortByTs(pend)[1]>>

\* flushPendingBatchInternal (610-615): nothing when the list is empty; else the
\* list is captured, cleared and sorted and notifyClosedTabsByEmail is called
FlushCapture(pend) == SortByTs(pend)

\* batchFlushChain.then(flushPendingBatchInternal): the queued flushes at the
\* front of the chain run as soon as the one before them has finished
RECURSIVE RunFlushes(_, _, _)
RunFlushes(chain, pend, out) ==
  IF chain = << >> \/ chain[1].stage # "queued"
  THEN [chain |-> chain, pend |-> pend, out |-> out]
  ELSE IF pend = << >>
  THEN RunFlushes(Tail(chain), pend, out)
  ELSE [chain |-> <<[stage |-> "email", entries |-> FlushCapture(pend), failed |-> {}]>>
                     \o Tail(chain),
        pend |-> << >>,
        out |-> Append(out, [to |-> "email", entries |-> FlushCapture(pend)])]

\* a flush that is queued and not run
startBatchFlushLater(pend) ==
  /\ batchFlushChain' =
       Append(batchFlushChain, [stage |-> "queued", entries |-> << >>, failed |-> {}])
  /\ UNCHANGED <<pendingBatchEntries, delivered>>

\* startBatchFlush (603-608), given the pending list pend
startBatchFlush(pend) ==
  LET r == RunFlushes(Append(batchFlushChain,
                             [stage |-> "queued", entries |-> << >>, failed |-> {}]),
                      pend, delivered)
  IN  /\ batchFlushChain' = r.chain
      /\ pendingBatchEntries' = r.pend
      /\ delivered' = r.out

\* an enqueue that arms no timer
scheduleBatchProcessingUnarmed(entry) ==
  IF entry.url = ""
  THEN UNCHANGED <<pendingBatchEntries, batchFlushTimer, flushTimers>>
  ELSE /\ pendingBatchEntries' = Append(pendingBatchEntries, BatchEntry(entry))
       /\ UNCHANGED <<batchFlushTimer, flushTimers>>

\* scheduleBatchProcessing (577-585) and requestBatchFlush() (596-600)
scheduleBatchProcessing(entry) ==
  IF entry.url = ""
  THEN UNCHANGED <<pendingBatchEntries, batchFlushTimer, flushTimers>>
  ELSE /\ pendingBatchEntries' = Append(pendingBatchEntries, BatchEntry(entry))
       /\ batchFlushTimer' = TRUE
       /\ flushTimers' = IF batchFlushTimer THEN flushTimers ELSE flushTimers + 1

\* lines 520-527: the callbacks of the get and set of htmlLogEntries.  The get
\* is issued before resolve() lets the next append issue its own requests and
\* storage.local answers in the order of issue, so the set of one entry is
\* issued before the get of the next and the list read is the list stored
HtmlLogCallback ==
  /\ logQueue # << >>
  /\ htmlLogEntries' = Unshift(htmlLogEntries, BatchEntry(Head(logQueue)))
  /\ logQueue' = Tail(logQueue)
  /\ scheduleBatchProcessing(Head(logQueue))
  /\ UNCHANGED <<now, tabs, openTimes, closedHistory, undoMap, badgeCount, cfgVars,
                 scanVars, openTimesWriteChain, historyWriteChain, badgeWriteChain,
                 undoWriteChain, undoVars, batchFlushChain, delivered, probe, sideVars>>

\* the timeout armed at 597 fires
BatchTimerFires ==
  /\ flushTimers > 0
  /\ flushTimers' = flushTimers - 1
  /\ batchFlushTimer' = FALSE
  /\ startBatchFlush(pendingBatchEntries)
  /\ UNCHANGED <<now, tabs, storeVars, cfgVars, scanVars, chainVars, undoVars, probe, sideVars>>

\* runtime.onSuspend (677-679): requestBatchFlush(true)
OnSuspend ==
  /\ Len(batchFlushChain) <= MaxQueue
  /\ flushTimers' = IF batchFlushTimer THEN flushTimers - 1 ELSE flushTimers
  /\ batchFlushTimer' = FALSE
  /\ startBatchFlush(pendingBatchEntries)
  /\ UNCHANGED <<now, tabs, storeVars, cfgVars, scanVars, chainVars, undoVars, probe, sideVars>>

\* adapters whose failure is thrown into flushPendingBatchInternal
AfterAdapterThrowing(stage, failed) ==
  IF failed THEN "done"
  ELSE IF stage = "email" THEN "telegram"
  ELSE IF stage = "telegram" THEN "export"
  ELSE "done"

\* lines 615-617 with the try/catch of each adapter (622-641, 646-663,
\* 668-674): the adapter returns whether its delivery failed or not, and the
\* next await follows
AfterAdapter(stage, failed) ==
  IF stage = "email" THEN "telegram"
  ELSE IF stage = "telegram" THEN "export"
  ELSE "done"

\* an adapter returned (615-617), its delivery made or failed: the next one is
\* called, or the flush is over
AdapterDone ==
  /\ batchFlushChain # << >>
  /\ batchFlushChain[1].stage \in {"email", "telegram", "export"}
  /\ \E failed \in BOOLEAN :
       LET f == batchFlushChain[1]
           next == AfterAdapter(f.stage, failed)
       IN  IF next = "done"
           THEN LET r == RunFlushes(Tail(batchFlushChain), pendingBatchEntries, delivered)
                IN  /\ batchFlushChain' = r.chain
                    /\ pendingBatchEntries' = r.pend
                    /\ delivered' = r.out
           ELSE /\ batchFlushChain' =
                     [batchFlushChain EXCEPT
                        ![1].stage = next,
                        ![1].failed = IF failed THEN @ \cup {f.stage} ELSE @]
                /\ delivered' = Append(delivered, [to |-> next, entries |-> f.entries])
                /\ UNCHANGED pendingBatchEntries
  /\ UNCHANGED <<now, tabs, storeVars, cfgVars, scanVars, chainVars, undoVars,
                 batchFlushTimer, flushTimers, probe, sideVars>>

\* ------------------------------------------------ manual commands (778-830)
\* messages exportHtmlNow, gmail-send and telegram-send: the handler awaits
\* writeHtmlLog, sendGmailMessage or sendTelegramMessage and then responds
IdleManual == [cmd |-> "", st |-> "idle"]

ManualCommands == {"exportHtmlNow", "gmail-send", "telegram-send"}

\* whether the awaited call throws when its download or request failed:
\* writeHtmlLog catches everything (538, 572-574); sendGmailMessage (1067-1086)
\* and sendTelegramMessage (1148-1151) throw
Throws(cmd, failed) == IF cmd = "exportHtmlNow" THEN FALSE ELSE failed

\* the message of the error thrown
ErrorMessage(cmd) ==
  IF cmd = "gmail-send" THEN "Gmail send failed" ELSE "Telegram send failed"

\* the try/catch around the awaited call (779-788, 793-796, 821-827)
manualReply(cmd, failed) ==
  IF Throws(cmd, failed) THEN Failure(ErrorMessage(cmd)) ELSE OkReply

\* the message arrives: the download or the request is issued
ManualCommand(c) ==
  /\ manual.st # "sent"
  /\ manual' = [cmd |-> c, st |-> "sent"]
  /\ UNCHANGED <<now, tabs, storeVars, cfgVars, scanVars, chainVars, undoVars, batchVars,
                 probe, reply, openTimesGets, seeding>>

\* the download or the request is over, well or not, and the handler responds
ManualSettled ==
  /\ manual.st = "sent"
  /\ \E failed \in BOOLEAN :
       /\ manual' = [manual EXCEPT !.st = IF failed THEN "failed" ELSE "done"]
       /\ reply' = manualReply(manual.cmd, failed)
  /\ UNCHANGED <<now, tabs, storeVars, cfgVars, scanVars, chainVars, undoVars, batchVars,
                 probe, openTimesGets, seeding>>

\* ------------------------------------------------ scan alarm (87-123)
Max(a, b) == IF a >= b THEN a ELSE b
Min(a, b) == IF a <= b THEN a ELSE b
CeilDiv(a, b) == (a + b - 1) \div b

\* hours and minutes as ensureCheckAlarm reads them (96-101)
CfgHours(hours) == IF hours = Null THEN DEFAULT_THRESHOLD_HOURS ELSE hours[1]
CfgMinutes(minutes) == IF minutes = Null THEN DEFAULT_THRESHOLD_MINUTES ELSE minutes[1]

\* a period rounded down instead of up
computeCheckPeriodFloor(hours, minutes) ==
  Max(1, Min(60, IF (hours * 60 + minutes) \div 4 = 0 THEN DEFAULT_CHECK_INTERVAL_MINUTES
                 ELSE (hours * 60 + minutes) \div 4))

computeCheckPeriodMinutes(hours, minutes) ==
  LET totalMinutes == Max(0, hours * 60 + minutes)
      dynamic == CeilDiv(totalMinutes, 4)
  IN  Max(1, Min(60, IF dynamic = 0 THEN DEFAULT_CHECK_INTERVAL_MINUTES ELSE dynamic))

\* ensureCheckAlarm without the totalMinutes === 0 branch of 103-107
AlarmForAlways(hours, minutes) ==
  Some(computeCheckPeriodMinutes(CfgHours(hours), CfgMinutes(minutes)))

\* the alarm ensureCheckAlarm leaves for a stored threshold (102-109)
AlarmFor(hours, minutes) ==
  LET h == CfgHours(hours)
      m == CfgMinutes(minutes)
  IN  IF h * 60 + m = 0 THEN Null ELSE Some(computeCheckPeriodMinutes(h, m))

\* the thresholds the popup saves (HH:MM), as <<hours, minutes>>
ThresholdChoices == {<<0, 0>>, <<0, 1>>, <<DEFAULT_THRESHOLD_HOURS, DEFAULT_THRESHOLD_MINUTES>>}

\* the popup saves a threshold; storage.onChanged (114-118) calls ensureCheckAlarm,
\* which issues its sync.get
\* while fewer than `cap` of those reads are outstanding
SaveThresholdWithin(hm, cap) ==
  /\ <<thresholdHours, thresholdMinutes>> # <<Some(hm[1]), Some(hm[2])>>
  /\ Len(ensureQueue) < cap
  /\ thresholdHours' = Some(hm[1])
  /\ thresholdMinutes' = Some(hm[2])
  /\ ensureQueue' = Append(ensureQueue, <<Some(hm[1]), Some(hm[2])>>)
  /\ UNCHANGED <<now, tabs, storeVars, alarm, scanVars, chainVars, undoVars, batchVars, probe, sideVars>>

SaveThreshold(hm) == SaveThresholdWithin(hm, MaxQueue)

\* the callback of the sync.get of ensureCheckAlarm (95-110)
EnsureCallback ==
  /\ ensureQueue # << >>
  /\ alarm' = AlarmFor(Head(ensureQueue)[1], Head(ensureQueue)[2])
  /\ ensureQueue' = Tail(ensureQueue)
  /\ UNCHANGED <<now, tabs, storeVars, thresholdHours, thresholdMinutes, scanVars,
                 chainVars, undoVars, batchVars, probe, sideVars>>

\* ------------------------------------------------ install and start-up (34-78)
\* what tab.lastAccessed may be: absent, or a time before the event
LastAccessedChoices == {0, StartMs + TickMs}

OpenTabs == {t \in TabIds : IsOpen(t)}

\* runtime.onInstalled (34-63): tabs.query is issued, ensureCheckAlarm issues its
\* sync.get, and the defaults are stored for the threshold keys that are unset
OnInstalled ==
  /\ Len(seeding) < MaxQueue
  /\ Len(ensureQueue) < MaxQueue
  /\ seeding' = Append(seeding, [on |-> "onInstalled", tabs |-> OpenTabs])
  /\ ensureQueue' = Append(ensureQueue, <<thresholdHours, thresholdMinutes>>)
  /\ thresholdHours' =
       IF thresholdHours = Null THEN Some(DEFAULT_THRESHOLD_HOURS) ELSE thresholdHours
  /\ thresholdMinutes' =
       IF thresholdMinutes = Null THEN Some(DEFAULT_THRESHOLD_MINUTES) ELSE thresholdMinutes
  /\ UNCHANGED <<now, tabs, storeVars, alarm, scanVars, chainVars, undoVars, batchVars, probe,
                 manual, reply, openTimesGets>>

\* runtime.onStartup (66-78)
OnStartup ==
  /\ Len(seeding) < MaxQueue
  /\ Len(ensureQueue) < MaxQueue
  /\ seeding' = Append(seeding, [on |-> "onStartup", tabs |-> OpenTabs])
  /\ ensureQueue' = Append(ensureQueue, <<thresholdHours, thresholdMinutes>>)
  /\ UNCHANGED <<now, tabs, storeVars, thresholdHours, thresholdMinutes, alarm, scanVars,
                 chainVars, undoVars, batchVars, probe, manual, reply, openTimesGets>>

\* the callback of the tabs.query of onInstalled (35-44): storage.local.set of
\* the map built from the returned tabs
InstalledQueryCallback ==
  /\ seeding # << >>
  /\ seeding[1].on = "onInstalled"
  /\ \E seed \in [seeding[1].tabs -> LastAccessedChoices] : openTimes' = SeedAll(seed, now)
  /\ seeding' = Tail(seeding)
  /\ UNCHANGED <<now, tabs, closedHistory, htmlLogEntries, undoMap, badgeCount, cfgVars,
                 scanVars, chainVars, undoVars, batchVars, probe, manual, reply,
                 openTimesGets>>

\* the callback of the tabs.query of onStartup (69-77): updateOpenTimes(seed)
StartupQueryCallback ==
  /\ seeding # << >>
  /\ seeding[1].on = "onStartup"
  /\ Len(openTimesWriteChain) <= MaxQueue
  /\ \E seed \in [seeding[1].tabs -> LastAccessedChoices] :
       openTimesWriteChain' = updateOpenTimes(openTimesWriteChain, SeedOp(seed), openTimes)
  /\ seeding' = Tail(seeding)
  /\ UNCHANGED <<now, tabs, storeVars, cfgVars, scanVars, historyWriteChain, badgeWriteChain,
                 undoWriteChain, logQueue, undoVars, batchVars, probe, manual, reply,
                 openTimesGets>>

\* ------------------------------------------------ time
Tick ==
  /\ now < EndMs
  /\ now' = now + TickMs
  /\ UNCHANGED <<tabs, storeVars, cfgVars, scanVars, chainVars, undoVars, batchVars, probe, sideVars>>

\* ------------------------------------------------ judging a metrics record
\* the records checkTabActivity may return, over a wider range
ProbeMetrics ==
  [scrollY : 0..2, pageHeight : {0, 119, 120, 121, 240, 241}, viewHeight : {100, 200},
   hasInteracted : BOOLEAN]

\* lines 342-347 applied to a metrics record
Judge ==
  /\ probe.out = ""
  /\ probe' = [probe EXCEPT !.out = IF isRead(probe.m) THEN "read" ELSE "unread"]
  /\ UNCHANGED <<now, tabs, storeVars, cfgVars, scanVars, chainVars, undoVars, batchVars, sideVars>>

\* the window of a page just loaded: no tracker (__tabMonitorInitialized),
\* no interaction seen by it (__tabMonitorInteracted); `touched` tells whether
\* the user clicked or typed since the load, `collected` how many scans took
\* metrics from it
FreshWindow == [initialized |-> FALSE, interacted |-> FALSE, touched |-> FALSE, collected |-> 0]

\* a record still to be judged, on a page just loaded
NoProbe == [m |-> [scrollY |-> 0, pageHeight |-> 0, viewHeight |-> 100, hasInteracted |-> FALSE],
            out |-> "", win |-> FreshWindow]

\* ------------------------------------------------ the page of a tab (163-216)
\* a tracker that listens from the load of the page
checkTabActivityFromLoad(win, seen) == [seen EXCEPT !.hasInteracted = win.touched]

\* checkTabActivity (163-186): the geometry seen and window.__tabMonitorInteracted
checkTabActivity(win, seen) == [seen EXCEPT !.hasInteracted = win.interacted]

\* injectActivityTracker (188-216): nothing on a window that has the tracker,
\* else the flags are set and the listeners added
injectActivityTracker(win) ==
  IF win.initialized THEN win
  ELSE [win EXCEPT !.initialized = TRUE, !.interacted = FALSE]

\* the tab navigates or reloads: a new window
PageLoads ==
  /\ probe.out # "unread"
  /\ probe' = [probe EXCEPT !.win = FreshWindow, !.out = ""]
  /\ UNCHANGED <<now, tabs, storeVars, cfgVars, scanVars, chainVars, undoVars, batchVars, sideVars>>

\* the user clicks or types: markInteracted runs when the listeners are there
UserTouches ==
  /\ probe.out # "unread"
  /\ probe' = [probe EXCEPT !.win.touched = TRUE,
                            !.win.interacted = IF probe.win.initialized THEN TRUE ELSE @]
  /\ UNCHANGED <<now, tabs, storeVars, cfgVars, scanVars, chainVars, undoVars, batchVars, sideVars>>

\* lines 312-347 on the page of a candidate: executeScript(checkTabActivity)
\* returns the metrics, executeScript(injectActivityTracker) is issued, and the
\* metrics are judged; an unread tab is closed
CollectMetrics ==
  /\ probe.out # "unread"
  /\ probe.win.collected < MaxCollects
  /\ \E seen \in MetricsSet :
       LET m == checkTabActivity(probe.win, seen)
       IN  probe' = [m |-> m,
                     out |-> IF isRead(m) THEN "read" ELSE "unread",
                     win |-> [injectActivityTracker(probe.win) EXCEPT !.collected = @ + 1]]
  /\ UNCHANGED <<now, tabs, storeVars, cfgVars, scanVars, chainVars, undoVars, batchVars, sideVars>>

\* ------------------------------------------------ the worker after start-up
\* Every open tab has its open-time entry (34-44, 69-78), written at StartMs; the
\* time is one of `clock`; the alarm is the one
\* ensureCheckAlarm left for the stored threshold, and nothing is in flight.
\* `open` are the tabs that may exist, `kinds` what they may be, `thresholds`
\* what the user may have saved (Null: nothing stored yet), `history` the stored closedHistory and `probes`
\* the metrics records to judge; `slots` names the activations of checkTabsNow
\* that may be under way together.
InitTracked(clock, open, kinds, thresholds, history, probes, slots, tracked) ==
  /\ now \in clock
  /\ tabs \in {f \in [TabIds -> kinds \cup {NoTab("unopened"), NoTab("closed")}] :
                 \A t \in TabIds : IF t \in open THEN f[t] # NoTab("closed")
                                   ELSE f[t] = NoTab("closed")}
  /\ \E have \in tracked :
       openTimes = [t \in {x \in have : tabs[x].url \in Urls} |-> StartMs]
  /\ \E hm \in thresholds :
       /\ thresholdHours = IF hm = Null THEN Null ELSE Some(hm[1])
       /\ thresholdMinutes = IF hm = Null THEN Null ELSE Some(hm[2])
       /\ alarm = AlarmFor(thresholdHours, thresholdMinutes)
  /\ closedHistory \in history
  /\ ensureQueue = << >>
  /\ htmlLogEntries = << >>
  /\ undoMap = << >>
  /\ badgeCount = 0
  /\ checkInProgress = FALSE
  /\ checkGuardTimer = Null
  /\ scans = [s \in slots |-> IdleScan]
  /\ openTimesWriteChain = << >>
  /\ historyWriteChain = << >>
  /\ badgeWriteChain = << >>
  /\ undoWriteChain = << >>
  /\ logQueue = << >>
  /\ notifs = [n \in TabIds |-> NoNotif]
  /\ restoring = [n \in TabIds |-> NoRestore]
  /\ reopened = [n \in 0..MaxTabs |-> 0]
  /\ restoredShown = [n \in 0..MaxTabs |-> 0]
  /\ restoreCmd = IdleCmd
  /\ pendingBatchEntries = << >>
  /\ batchFlushTimer = FALSE
  /\ flushTimers = 0
  /\ batchFlushChain = << >>
  /\ delivered = << >>
  /\ probe \in probes
  /\ manual = IdleManual
  /\ reply = NoReply
  /\ openTimesGets = << >>
  /\ seeding = << >>

InitSlots(clock, open, kinds, thresholds, history, probes, slots) ==
  InitTracked(clock, open, kinds, thresholds, history, probes, slots, {TabIds})

InitWith(clock, open, kinds, thresholds, history, probes) ==
  InitSlots(clock, open, kinds, thresholds, history, probes, ScanIds)

\* ------------------------------------------------ failures in a chain (952-976)
\* The promise of an operation is resolved in the callback of its set and
\* nowhere else, and it is never rejected.
\* An exception in the get callback (data is undefined after a failed get, or
\* the mutator throws) leaves the callback before the set is issued: the
\* promise stays pending, and .catch(() => {}) of the next call waits for it.
UndoCallbackThrows ==
  /\ Running(undoWriteChain)
  /\ undoWriteChain' = [undoWriteChain EXCEPT ![1].stage = "thrown"]
  /\ UNCHANGED <<now, tabs, storeVars, cfgVars, scanVars, openTimesWriteChain,
                 historyWriteChain, badgeWriteChain, logQueue, undoVars, batchVars, probe,
                 sideVars>>

OpenTimesCallbackThrows ==
  /\ Running(openTimesWriteChain)
  /\ openTimesWriteChain' = [openTimesWriteChain EXCEPT ![1].stage = "thrown"]
  /\ UNCHANGED <<now, tabs, storeVars, cfgVars, scanVars, historyWriteChain,
                 badgeWriteChain, undoWriteChain, logQueue, undoVars, batchVars, probe,
                 sideVars>>

\* a set that fails: the record stays as stored, the callback of the set runs
\* with runtime.lastError and resolves; what the mutator did besides is done
UndoSetFails ==
  /\ Running(undoWriteChain)
  /\ LET op == undoWriteChain[1]
     IN  /\ undoWriteChain' = Resolved(undoWriteChain, undoMap)
         /\ restoring' =
              IF UndoStartsRestore(op, op.base)
              THEN [restoring EXCEPT ![op.id] = StartedRestore(op.base[op.id])]
              ELSE restoring
  /\ UNCHANGED <<now, tabs, storeVars, cfgVars, scanVars, openTimesWriteChain,
                 historyWriteChain, badgeWriteChain, logQueue, notifs, reopened, restoredShown, restoreCmd,
                 batchVars, probe, sideVars>>

OpenTimesSetFails ==
  /\ Running(openTimesWriteChain)
  /\ LET op == openTimesWriteChain[1]
     IN  /\ openTimesWriteChain' = Resolved(openTimesWriteChain, openTimes)
         /\ IF op.fin # 0
            THEN maybeFinish(op.fin, op.key, scans)
            ELSE UNCHANGED <<scanVars>>
  /\ UNCHANGED <<now, tabs, storeVars, cfgVars, historyWriteChain, badgeWriteChain,
                 undoWriteChain, logQueue, undoVars, batchVars, probe, sideVars>>

Faults ==
  \/ UndoCallbackThrows
  \/ OpenTimesCallbackThrows
  \/ UndoSetFails
  \/ OpenTimesSetFails

\* ------------------------------------------------ the parts of the worker
TabEvents ==
  \/ \E t \in TabIds : OnCreated(t)
  \/ \E t \in TabIds : OnUpdated(t)
  \/ \E t \in TabIds : OnActivated(t)
  \/ \E t \in TabIds : OnRemoved(t)

Scanning ==
  \/ RunCheckNow
  \/ \E s \in DOMAIN scans : ScanEvaluate(s)
  \/ \E s \in DOMAIN scans, t \in TabIds : TabGetCallback(s, t)
  \/ \E s \in DOMAIN scans, t \in TabIds : ScriptCallback(s, t)
  \/ \E s \in DOMAIN scans, t \in TabIds : RemoveCallback(s, t)
  \/ \E s \in DOMAIN scans, t \in TabIds : SessionCallback(s, t)
  \/ OpenTimesCallback

Watchdog ==
  \/ Tick
  \/ GuardTimeout

Alarms ==
  \/ OnAlarm
  \/ \E hm \in ThresholdChoices : SaveThreshold(hm)
  \/ EnsureCallback

HistoryWrites ==
  \/ HistoryCallback
  \/ HistorySetCallback

HistoryPanel ==
  \/ \E idx \in IndexChoices : RestoreClosed(idx)
  \/ RestoreGetCallback
  \/ RestoreSessionCallback
  \/ RestoreCreateCallback
  \/ ClearHistory

Badge ==
  \/ BadgeCallback
  \/ BadgeSetCallback
  \/ ResetBadge

Undo ==
  \/ \E n \in TabIds : NotificationCreated(n)
  \/ \E n \in TabIds : OnButtonClicked(n)
  \/ \E n \in TabIds : OnClosed(n)
  \/ UndoCallback
  \/ \E n \in TabIds : UndoSessionCallback(n)
  \/ \E n \in TabIds : UndoCreateCallback(n)

Judging ==
  \/ Judge

Seeding ==
  \/ OnInstalled
  \/ OnStartup
  \/ InstalledQueryCallback
  \/ StartupQueryCallback

Batching ==
  \/ HtmlLogCallback
  \/ BatchTimerFires
  \/ OnSuspend
  \/ AdapterDone

Manual ==
  \/ \E c \in ManualCommands : ManualCommand(c)
  \/ ManualSettled

Queries ==
  \/ GetClosedHistory

\* ------------------------------------------------ the whole worker
Init == InitWith({StartMs}, TabIds, TabKinds, ThresholdChoices, {<< >>}, {NoProbe})

Next ==
  \/ TabEvents
  \/ Scanning
  \/ Watchdog
  \/ Alarms
  \/ HistoryWrites
  \/ HistoryPanel
  \/ Badge
  \/ Undo
  \/ Batching
  \/ Judging
  \/ Manual
  \/ Queries
  \/ Seeding

Spec == Init /\ [][Next]_vars

\* ------------------------------------------------ the worker after closures
\* The state a scan leaves when, under threshold 00:00, it has closed the tabs
\* `closed` one after the other (353-371) and the open-time map has caught up:
\* the history writes, the badge increments and the notifications of the
\* closures are queued, and nothing of them has been handled.  `times` are the
\* times of the closures and `history` is the stored closedHistory.
\* the tabs closed where the closures are followed further
CloseTabs == 1..MaxClosures

ClosureTimes == {StartMs + k * TickMs : k \in 1..MaxTicks}

\* the closures in the order of their addToHistory calls: tab t at time ts[t]
ClosureOrders(closed, times) ==
  {ts \in [closed -> times] : \A i, j \in closed : i <= j => ts[i] <= ts[j]}

\* the calls updateOpenTimes(op) for the operations `ops`, one after the other
\* with no callback in between
RECURSIVE Submitted(_, _, _)
Submitted(chain, ops, store) ==
  IF ops = << >> THEN chain
  ELSE Submitted(updateOpenTimes(chain, ops[1], store), Tail(ops), store)

\* lines 356-364 and 156-160: the two deletes a closure submits, the scan's own
\* and the one of tabs.onRemoved
RECURSIVE ClosureDeletes(_)
ClosureDeletes(closed) ==
  IF closed = {} THEN << >>
  ELSE LET t == CHOOSE x \in closed : \A y \in closed : x <= y
       IN  <<OtOp("delete", t, 0), OtOp("delete", t, 0)>> \o ClosureDeletes(closed \ {t})

\* `behind` are the closed tabs whose deletes from the open-time map are still
\* queued; the map has caught up when there is none
InitAfter(closed, times, history, behind) ==
  /\ now = EndMs
  /\ tabs = [t \in TabIds |-> NoTab("closed")]
  /\ openTimes = IF behind = {} THEN << >> ELSE [t \in behind |-> StartMs]
  /\ thresholdHours = Some(0)
  /\ thresholdMinutes = Some(0)
  /\ alarm = AlarmFor(Some(0), Some(0))
  /\ ensureQueue = << >>
  /\ closedHistory \in history
  /\ htmlLogEntries = << >>
  /\ undoMap = << >>
  /\ badgeCount = 0
  /\ checkInProgress = FALSE
  /\ checkGuardTimer = Null
  /\ scans = [s \in ScanIds |-> IdleScan]
  /\ openTimesWriteChain = Submitted(<< >>, ClosureDeletes(behind), openTimes)
  /\ \E ts \in ClosureOrders(closed, times), sid \in [closed -> {"", "sid"}] :
       /\ historyWriteChain =
            StartHead([t \in closed |->
                         HistOp(HistoryEntry("https-://a.test/", ts[t], RestoreHint(sid[t], t)))],
                      closedHistory)
       /\ notifs = [t \in TabIds |->
                      IF t \in closed
                      THEN [st |-> "creating",
                            entry |-> HistoryEntry("https-://a.test/", 0, RestoreHint(sid[t], t))]
                      ELSE NoNotif]
  /\ badgeWriteChain = StartHead([t \in closed |-> BadgeOp], 0)
  /\ undoWriteChain = << >>
  /\ logQueue = << >>
  /\ restoring = [n \in TabIds |-> NoRestore]
  /\ reopened = [n \in 0..MaxTabs |-> 0]
  /\ restoredShown = [n \in 0..MaxTabs |-> 0]
  /\ restoreCmd = IdleCmd
  /\ pendingBatchEntries = << >>
  /\ batchFlushTimer = FALSE
  /\ flushTimers = 0
  /\ batchFlushChain = << >>
  /\ delivered = << >>
  /\ probe = NoProbe
  /\ manual = IdleManual
  /\ reply = NoReply
  /\ openTimesGets = << >>
  /\ seeding = << >>

InitClosed(closed, times, history) == InitAfter(closed, times, history, {})

\* The specifications below are the worker with part of its environment held
\* still.  Each keeps every action that reads or writes the variables its
\* properties speak of; the actions left out only touch other variables.

\* ---- the scan and the open-time map: any tabs, any tab events, a fixed threshold
ScanTabs == 1..MaxScanTabs

InitScan == InitWith({StartMs}, ScanTabs, TabKinds, {<<0, 1>>}, {<< >>}, {NoProbe})

NextScan ==
  \/ TabEvents
  \/ Scanning
  \/ Watchdog

SpecScan == InitScan /\ [][NextScan]_vars

\* a URL whose scheme is http or https
IsHttpUrl(url) ==
  \/ PrefixMatchI(UrlChars(url), <<"h","t","t","p",":","/","/">>)
  \/ PrefixMatchI(UrlChars(url), <<"h","t","t","p","s",":","/","/">>)

\* C1: a stale http(s) tab that is neither pinned nor audible is closed by the
\* next scan when its page is short, unscrolled and untouched.  For that the
\* scan has to look at the page: when the callback of chrome.tabs.get has run
\* for such a tab, the tab is waiting for executeScript.
C1_StaleHttpTabIsExamined ==
  [][\A s \in ScanIds, t \in TabIds :
       ( /\ scans[s].phase = "run"
         /\ scans[s].tpc[t] = "get"
         /\ IsOpen(t)
         /\ IsHttpUrl(tabs[t].url)
         /\ ~tabs[t].pinned
         /\ ~tabs[t].audible
         /\ tabs' = tabs
         /\ scans'[s].tpc[t] # "get" )
       => scans'[s].tpc[t] = "script"]_vars

\* C2: for a threshold T > 0, the tabs a scan takes as candidates are exactly
\* the tracked tabs with now - openedAt > T, for the now and the open times the
\* scan read; a tab exactly T old is not one.
C2_CandidateIffOlderThanThreshold ==
  [][\A s \in ScanIds :
       (scans[s].phase = "read" /\ scans'[s].phase # "read")
       => LET T == thresholdHours[1] * MsPerHour + thresholdMinutes[1] * MsPerMinute
              snap == scans[s].snap
          IN  T > 0 =>
                \A t \in TabIds :
                  (scans'[s].tpc[t] = "get") <=> (t \in DOMAIN snap /\ now - snap[t] > T)]_vars

\* a scan running on a tab older than T that left aside a tab exactly T old
C2_Witness ==
  \E s \in ScanIds, t \in TabIds, u \in TabIds :
    /\ scans[s].phase = "run"
    /\ scans[s].T > 0
    /\ scans[s].tpc[t] = "get"
    /\ scans[s].at - scans[s].snap[t] > scans[s].T
    /\ u \in DOMAIN scans[s].snap
    /\ scans[s].at - scans[s].snap[u] = scans[s].T
    /\ scans[s].tpc[u] = "none"

\* C4: a tab whose metrics the scan could not obtain (executeScript failed, or
\* returned no result) is not closed by that scan: a tab the scan removes, or
\* has removed, is one for which it got metrics.
C4_NoMetricsNoClosure ==
  \A s \in ScanIds, t \in TabIds :
    scans[s].tpc[t] \in {"remove", "session"} => scans[s].got[t] = "metrics"

\* executeScript failed for an open tab: the scan resets its open time instead
C4_Witness ==
  \E s \in ScanIds, t \in TabIds :
    /\ scans[s].tpc[t] = "chain"
    /\ scans[s].got[t] = "error"
    /\ IsOpen(t)

\* C6: mutations of the open-time map submitted together through
\* updateOpenTimes are both applied, one after the other: the stored map
\* changes only when the first operation of the chain completes, and then it
\* becomes the stored map with that operation's mutation applied, so the later
\* one works on the result of the earlier one.
C6_OpenTimeUpdatesSerialized ==
  [][LET chain == openTimesWriteChain
         completes == Len(openTimesWriteChain') < Len(chain)
     IN  /\ openTimes' # openTimes => completes
         /\ completes => openTimes' = OtMutate(chain[1], openTimes, now)]_vars

\* a navigation's reset and a scan's reset of the same tab wait in the chain
C6_Witness ==
  /\ Len(openTimesWriteChain) >= 2
  /\ openTimesWriteChain[1].kind = "set"
  /\ openTimesWriteChain[1].fin = 0
  /\ openTimesWriteChain[2].kind = "set"
  /\ openTimesWriteChain[2].fin # 0
  /\ openTimesWriteChain[2].key = openTimesWriteChain[1].key

\* no tab of the open-time map snap is older than T at time `at`
NoneEligible(snap, at, T) == \A t \in DOMAIN snap : snap[t] = 0 \/ at - snap[t] <= T

\* C11: a scan that finds no eligible tab is a no-op: starting it changes no
\* store and no tab, and the step in which it finds none of the tabs it read
\* older than the threshold leaves the open-time map, the history list, the
\* undo map, the badge counter, the tabs and every queued write as they are,
\* clears checkInProgress, cancels the watchdog and ends the scan.
C11_NoEligibleTabsNoOp ==
  [][/\ (~checkInProgress /\ checkInProgress') =>
          (storeVars' = storeVars /\ tabs' = tabs /\ chainVars' = chainVars)
     /\ \A s \in ScanIds :
          ( /\ scans[s].phase = "read"
            /\ scans'[s].phase # "read"
            /\ NoneEligible(scans[s].snap, now,
                            thresholdHours[1] * MsPerHour + thresholdMinutes[1] * MsPerMinute) )
          => /\ storeVars' = storeVars
             /\ tabs' = tabs
             /\ chainVars' = chainVars
             /\ undoVars' = undoVars
             /\ ~checkInProgress'
             /\ checkGuardTimer' = Null
             /\ scans'[s] = IdleScan]_vars

\* runCheckNow was answered and its scan is over, at a time when no tracked
\* tab can be older than the threshold
C11_Witness ==
  /\ reply = OkReply
  /\ now = StartMs
  /\ openTimes # << >>
  /\ ~checkInProgress
  /\ checkGuardTimer = Null
  /\ \A s \in ScanIds : scans[s] = IdleScan

\* C12: when the callback of chrome.tabs.get runs for a candidate that still
\* exists, the scan skips the tab (drops it without a metrics request and
\* without touching the open-time map or its chain) exactly when the tab is
\* pinned, audible, or its URL is not an http:// or https:// URL; any other
\* candidate goes on to executeScript.
C12_SkipIffPinnedAudibleOrNotHttp ==
  [][\A s \in ScanIds, t \in TabIds :
       ( /\ scans[s].phase = "run"
         /\ scans[s].tpc[t] = "get"
         /\ IsOpen(t)
         /\ tabs' = tabs
         /\ scans'[s].tpc[t] # "get" )
       => LET skip == tabs[t].pinned \/ tabs[t].audible \/ ~IsHttpUrl(tabs[t].url)
              skipped == /\ scans'[s].tpc[t] = "none"
                         /\ openTimes' = openTimes
                         /\ openTimesWriteChain' = openTimesWriteChain
          IN  /\ skip <=> skipped
              /\ ~skip => scans'[s].tpc[t] = "script"]_vars

\* ---- judging metrics records: every record of ProbeMetrics, one at a time
InitRead ==
  InitWith({StartMs}, {}, TabKinds, {<<0, 1>>}, {<< >>},
           [m : ProbeMetrics, out : {""}, win : {FreshWindow}])

NextRead ==
  \/ Judging

SpecRead == InitRead /\ [][NextRead]_vars

Closable == Tab("https-://a.test/", FALSE, FALSE)

InitAlarm == InitWith({StartMs}, ScanTabs, {Closable}, ThresholdChoices, {<< >>}, {NoProbe})

NextAlarm ==
  \/ Alarms
  \/ Scanning
  \/ Watchdog

SpecAlarm == InitAlarm /\ [][NextAlarm]_vars

\* the stored threshold in minutes
StoredTotalMinutes == thresholdHours[1] * 60 + thresholdMinutes[1]

\* C9: once the worker has taken in a threshold of zero minutes there is no
\* scan alarm, so the alarm starts no scan; runCheckNow still starts one
\* whenever no scan is in flight.
C9_ZeroThresholdNoAlarmManualScan ==
  (StoredTotalMinutes = 0 /\ ensureQueue = << >>) =>
    /\ alarm = Null
    /\ ~ENABLED OnAlarm
    /\ (~checkInProgress /\ \E s \in ScanIds : scans[s].phase = "idle")
         => ENABLED (RunCheckNow /\ checkInProgress')

\* the threshold is 00:00, there is no alarm, and a scan is running
C9_Witness ==
  /\ StoredTotalMinutes = 0
  /\ ensureQueue = << >>
  /\ alarm = Null
  /\ checkInProgress
  /\ \E s \in ScanIds : scans[s].phase = "run"

\* ---- the history list: closures written onto a list that is full or one
\* short of it, with the history panel restoring and clearing
HistoryFilled(n) ==
  [i \in 1..n |-> HistoryEntry("https-://a.test/", n - i + 1, RestoreHint("", 0))]

InitHistory ==
  InitClosed(CloseTabs, {EndMs}, {HistoryFilled(MAX_HISTORY - 1), HistoryFilled(MAX_HISTORY)})

NextHistory ==
  \/ HistoryWrites
  \/ HistoryPanel

SpecHistory == InitHistory /\ [][NextHistory]_vars

\* C5: closedHistory never holds more than 50 entries, whatever the order of
\* closures, restores from the panel and clears; an append puts the new entry
\* first, and onto a list of 50 it keeps the first 49 behind it, dropping the
\* last.
C5_HistoryCapped ==
  /\ [](Len(closedHistory) <= MAX_HISTORY)
  /\ [][LET chain == historyWriteChain
            appends == /\ chain # << >>
                       /\ chain[1].stage = "read"
                       /\ historyWriteChain' # << >>
                       /\ historyWriteChain'[1].stage = "set"
            base == chain[1].base
        IN  appends =>
              /\ closedHistory'[1] = chain[1].entry
              /\ Len(base) < MAX_HISTORY => closedHistory' = <<chain[1].entry>> \o base
              /\ Len(base) = MAX_HISTORY =>
                   /\ Len(closedHistory') = MAX_HISTORY
                   /\ \A i \in 2..MAX_HISTORY : closedHistory'[i] = base[i - 1]]_vars

\* a closure was just written onto a list that held 50 entries
C5_Witness ==
  /\ historyWriteChain # << >>
  /\ historyWriteChain[1].stage = "set"
  /\ Len(historyWriteChain[1].base) = MAX_HISTORY
  /\ Len(closedHistory) = MAX_HISTORY
  /\ closedHistory[1] = historyWriteChain[1].entry
  /\ closedHistory[MAX_HISTORY] = historyWriteChain[1].base[MAX_HISTORY - 1]

InitUndo == InitClosed(CloseTabs, {EndMs}, {<< >>})

NextUndo ==
  \/ Undo

SpecUndo == InitUndo /\ [][NextUndo]_vars

\* C7: a registered UndoEntry is deleted once, by the click on Undo or by the
\* notification closing: when either has been handled the map has no entry
\* for the id and the other entries are as they were; a restore starts only
\* together with that deletion; a click or close for an id without an entry
\* changes nothing and restores nothing; an entry is registered only for an id
\* that has none; and no notification reopens more than one tab.
C7_UndoEntryDeletedOnce ==
  /\ [](\A n \in TabIds : reopened[n] <= 1)
  /\ [][LET chain == undoWriteChain
            settles == Len(undoWriteChain') < Len(chain)
            op == chain[1]
        IN  /\ undoMap' # undoMap => settles
            /\ (settles /\ op.kind \in {"click", "close"}) =>
                 /\ op.id \notin DOMAIN undoMap'
                 /\ undoMap' = [k \in (DOMAIN undoMap) \ {op.id} |-> undoMap[k]]
                 /\ op.id \notin DOMAIN undoMap =>
                      /\ undoMap' = undoMap
                      /\ restoring' = restoring
                      /\ reopened' = reopened
            /\ (settles /\ op.kind = "put") => op.id \notin DOMAIN undoMap
            /\ \A n \in TabIds :
                 (restoring[n].stage = "none" /\ restoring'[n].stage # "none") =>
                   /\ settles
                   /\ op.kind = "click"
                   /\ op.id = n
                   /\ n \in DOMAIN undoMap
                   /\ n \notin DOMAIN undoMap']_vars

\* a second click on Undo waits to be handled after the first one reopened
\* the tab and deleted the entry
C7_Witness ==
  /\ Running(undoWriteChain)
  /\ undoWriteChain[1].kind = "click"
  /\ undoWriteChain[1].id \notin DOMAIN undoMap
  /\ reopened[undoWriteChain[1].id] = 1

\* ---- the two ways to restore: closures, their notifications and the history panel
InitRestore == InitClosed(CloseTabs, {EndMs}, {<< >>})

NextRestore ==
  \/ HistoryWrites
  \/ HistoryPanel
  \/ Undo

SpecRestore == InitRestore /\ [][NextRestore]_vars

\* C8: a restore by the Undo button deletes the UndoEntry and leaves the
\* history list as it is; a restore from the history panel writes the list
\* without the restored entry and leaves the undo map as it is.
C8_RestoreFrames ==
  [][LET op == undoWriteChain[1]
         clickRestores == /\ Len(undoWriteChain') < Len(undoWriteChain)
                          /\ op.kind = "click"
                          /\ op.id \in DOMAIN undoMap
         panelRestores == /\ restoreCmd.st \in {"session", "create"}
                          /\ restoreCmd'.st = "idle"
         list == restoreCmd.list
         idx == restoreCmd.idx
     IN  /\ clickRestores =>
              /\ op.id \notin DOMAIN undoMap'
              /\ restoring'[op.id].stage # "none"
              /\ closedHistory' = closedHistory
         /\ (\E n \in TabIds : reopened'[n] # reopened[n] \/ restoring'[n] # restoring[n])
              => closedHistory' = closedHistory
         /\ panelRestores =>
              /\ reopened'[0] = reopened[0] + 1
              /\ Len(closedHistory') = Len(list) - 1
              /\ \A i \in 1..Len(closedHistory') :
                   closedHistory'[i] = IF i <= idx THEN list[i] ELSE list[i + 1]
              /\ undoMap' = undoMap
              /\ undoWriteChain' = undoWriteChain]_vars

\* one closure was restored by its Undo button and its history entry is still
\* there; another was restored from the history panel and its UndoEntry is
\* still there
C8_Witness ==
  /\ reopened[0] >= 1
  /\ restoreCmd = IdleCmd
  /\ undoWriteChain = << >>
  /\ undoMap # << >>
  /\ Len(closedHistory) = 1
  /\ \E n \in TabIds :
       /\ reopened[n] = 1
       /\ n \notin DOMAIN undoMap
       /\ closedHistory[1].restore.prev.index = n

\* ---- batching: three closures, their logging and flushing
InitBatch == InitClosed(TabIds, ClosureTimes, {<< >>})

NextBatch ==
  \/ HistoryWrites
  \/ Batching

SpecBatch == InitBatch /\ [][NextBatch]_vars

Occurrences(seq, e) == Cardinality({i \in DOMAIN seq : seq[i] = e})

\* C10: closures enqueued within one batching window make one flush: at most
\* one flush timer is armed, an enqueue delivers nothing, and a flush hands
\* over every pending entry as a single batch in ascending order of ts and
\* empties the pending list; the later adapters get that same batch.
C10_OneFlushForWindow ==
  /\ [](flushTimers <= 1 /\ (batchFlushTimer <=> flushTimers = 1))
  /\ [][LET pend == pendingBatchEntries
            delivers == Len(delivered') = Len(delivered) + 1
            last == delivered'[Len(delivered')]
        IN  /\ Len(pendingBatchEntries') > Len(pend) =>
                 /\ delivered' = delivered
                 /\ flushTimers' = 1
            /\ (delivers /\ last.to = "email") =>
                 /\ pend # << >>
                 /\ pendingBatchEntries' = << >>
                 /\ Len(last.entries) = Len(pend)
                 /\ \A i \in 1..Len(pend) :
                      Occurrences(last.entries, pend[i]) = Occurrences(pend, pend[i])
                 /\ \A i \in 1..(Len(last.entries) - 1) :
                      last.entries[i].ts <= last.entries[i + 1].ts
            /\ (delivers /\ last.to # "email") =>
                 last.entries = delivered[Len(delivered)].entries]_vars

\* three closures went out in the one batch that was flushed
C10_Witness ==
  /\ Len(delivered) = 3
  /\ delivered[1].to = "email"
  /\ Len(delivered[1].entries) = 3
  /\ delivered[3].to = "export"
  /\ pendingBatchEntries = << >>
  /\ flushTimers = 0

\* ---- manual commands beside the automatic flush of closures
InitManual == InitClosed(CloseTabs, {EndMs}, {<< >>})

NextManual ==
  \/ HistoryWrites
  \/ Batching
  \/ Manual

SpecManual == InitManual /\ [][NextManual]_vars

\* C14: when the export write or the delivery behind exportHtmlNow, gmail-send
\* or telegram-send fails, the response to the command is { ok: false } with an
\* error; the adapters of an automatic batch flush send no response, whatever
\* their outcome.
C14_ManualFailureReported ==
  [][/\ (manual.st = "sent" /\ manual'.st = "failed") =>
          (~reply'.ok /\ reply'.error # "")
     /\ (delivered' # delivered \/ batchFlushChain' # batchFlushChain) =>
          reply' = reply]_vars
\* ---- the commands of the popup on the history list and the badge
InitCommands == InitClosed(CloseTabs, {EndMs}, {<< >>})

NextCommands ==
  \/ HistoryWrites
  \/ HistoryPanel
  \/ Badge
  \/ Queries

SpecCommands == InitCommands /\ [][NextCommands]_vars

\* the list a whole restoreClosed command leaves for the list it read (906-921)
restoreClosedResult(list, idx) == IF HasIndex(list, idx) THEN Splice(list, idx) ELSE list

\* C15: getClosedHistory, resetBadge, clearHistory and restoreClosed are
\* idempotent on the history list and the badge counter: getClosedHistory
\* writes neither; resetBadge and clearHistory leave a state that does not
\* depend on the one they found (badge 0, empty list); and the list a
\* restoreClosed with index idx leaves is the list that a second restoreClosed
\* with the same idx leaves when it follows at once.
C15_CommandsIdempotent ==
  [][/\ GetClosedHistory => (closedHistory' = closedHistory /\ badgeCount' = badgeCount)
     /\ ResetBadge => (badgeCount' = 0 /\ closedHistory' = closedHistory)
     /\ ClearHistory => (closedHistory' = << >> /\ badgeCount' = badgeCount)
     /\ (restoreCmd.st = "get" /\ restoreCmd'.st = "idle") => closedHistory' = closedHistory
     /\ (restoreCmd.st \in {"session", "create"} /\ restoreCmd'.st = "idle") =>
          restoreClosedResult(closedHistory', restoreCmd.idx) = closedHistory']_vars
\* ---- scans and the watchdog: one more activation of checkTabsNow than
\* elsewhere may be under way, the threshold is 00:00, scans start by runCheckNow
OverlapIds == 1..(MaxScans + 1)

InitOverlap ==
  InitSlots({StartMs}, {1}, {Closable}, {<<0, 0>>}, {<< >>}, {NoProbe}, OverlapIds)

NextOverlap ==
  \/ Scanning
  \/ Watchdog

\* Time passes and an armed timer fires; a callback of the browser may never come.
SpecOverlap ==
  InitOverlap /\ [][NextOverlap]_vars /\ WF_vars(Tick) /\ WF_vars(GuardTimeout)

\* the activations of checkTabsNow with candidates whose callbacks are outstanding
InFlight == {s \in DOMAIN scans : scans[s].phase = "run" /\ Pending(scans[s]) > 0}

\* C16: at most one scan is in flight: while an activation of checkTabsNow has
\* candidates whose processing has not resolved, no step starts or advances
\* another activation, also after the watchdog fired for the first.
C16_OneScanInFlight ==
  [][\A s \in InFlight : \A r \in DOMAIN scans \ {s} : scans'[r] = scans[r]]_vars

\* C17: a scan that set checkInProgress, with a minute of the clock left for
\* its watchdog, is followed by a state in which checkInProgress is clear,
\* whether or not its callbacks ever come.
C17_FlagEventuallyCleared ==
  (checkInProgress /\ checkGuardTimer # Null
     /\ checkGuardTimer[1] + GUARD_TIMEOUT_MS <= EndMs) ~> ~checkInProgress

\* the flag is clear and the watchdog gone while a scan still waits for the
\* callbacks of its candidates
C17_Witness ==
  /\ ~checkInProgress
  /\ checkGuardTimer = Null
  /\ \E s \in DOMAIN scans :
       /\ scans[s].phase = "run"
       /\ Pending(scans[s]) > 0
       /\ now - scans[s].at >= GUARD_TIMEOUT_MS
\* ---- the write chains of the open-time map and the undo map
\* two closures whose deletes from the open-time map are queued, their
\* notifications being created
InitChains == InitAfter(CloseTabs, {EndMs}, {<< >>}, CloseTabs)

NextChains ==
  \/ OpenTimesCallback
  \/ Undo

SpecChains == InitChains /\ [][NextChains]_vars

\* only the first operation of a chain has issued its get
OneAtATime(chain) == \A i \in 2..Len(chain) : chain[i].stage = "queued"

\* the operations of a chain as submitted
Submissions(chain) == [i \in DOMAIN chain |-> [chain[i] EXCEPT !.stage = "queued", !.base = << >>]]

IsPrefix(a, b) == Len(a) <= Len(b) /\ SubSeq(b, 1, Len(a)) = a

\* a step leaves the operations in the order of submission: it takes none or
\* the first away and appends the new ones
KeepsOrder(chain, after) ==
  \/ IsPrefix(Submissions(chain), Submissions(after))
  \/ chain # << >> /\ IsPrefix(Tail(Submissions(chain)), Submissions(after))

\* the step in which the first operation of `after` issues its get
IssuesGet(chain, after) ==
  /\ after # << >>
  /\ after[1].stage = "read"
  /\ (chain = << >> \/ chain[1].stage # "read" \/ Len(after) < Len(chain))

\* C18: on the open-time map and on the undo map the queued operations run one
\* at a time in the order of submission: no operation behind the first has
\* issued its get, a step removes only the first operation and appends behind
\* the last, an operation is removed by its own write, and the get an
\* operation issues returns the record as the write of the one before left it.
C18_ChainsSerialized ==
  /\ [](OneAtATime(openTimesWriteChain) /\ OneAtATime(undoWriteChain))
  /\ [][/\ KeepsOrder(openTimesWriteChain, openTimesWriteChain')
        /\ KeepsOrder(undoWriteChain, undoWriteChain')
        /\ IssuesGet(openTimesWriteChain, openTimesWriteChain') =>
              openTimesWriteChain'[1].base = openTimes'
        /\ IssuesGet(undoWriteChain, undoWriteChain') =>
              undoWriteChain'[1].base = undoMap'
        /\ Len(openTimesWriteChain') < Len(openTimesWriteChain) =>
              openTimes' = OtMutate(openTimesWriteChain[1], openTimes, now)
        /\ Len(undoWriteChain') < Len(undoWriteChain) =>
              undoMap' = UndoMutate(undoWriteChain[1], undoMap)]_vars

\* on both records an operation that was queued behind another is running on
\* what that one wrote, with a further one queued behind it
C18_Witness ==
  /\ Len(openTimesWriteChain) >= 2
  /\ openTimesWriteChain[1].stage = "read"
  /\ openTimesWriteChain[1].base = openTimes
  /\ DOMAIN openTimes # CloseTabs
  /\ Len(undoWriteChain) >= 2
  /\ undoWriteChain[1].stage = "read"
  /\ undoWriteChain[1].base = undoMap
  /\ undoMap # << >>
\* ---- the write chains when a get, a set or a mutator fails
NextFaults ==
  \/ NextChains
  \/ Faults

SpecFaults == InitChains /\ [][NextFaults]_vars

\* C19: a failed set or a throwing mutator in one operation never stalls its
\* chain: as long as an operation is queued behind another on the open-time
\* map or on the undo map, the callback that lets the chain go on can run.
C19_FailureNeverStalls ==
  /\ Len(openTimesWriteChain) >= 2 => ENABLED OpenTimesCallback
  /\ Len(undoWriteChain) >= 2 => ENABLED UndoCallback
\* ================= Chrome-ext-chat5/background.js: the open-time map
\* This variant of the worker has no chain for openTimes.  Its listeners
\* issue a get and write the mutated result in the callback (114-154); its scan
\* keeps the object its first get returned, mutates it in the callbacks of the
\* candidates and writes the whole object each time (232-340).
\* a get issued by listener `on`, with what it returns
V1Get(on, kind, key, store) == [on |-> on, kind |-> kind, key |-> key, base |-> store]

\* tabs.onCreated (114-120)
OnCreatedV1(t) ==
  /\ tabs[t].url = "unopened"
  /\ Len(openTimesGets) < MaxGets
  /\ \E k \in TabKinds : tabs' = [tabs EXCEPT ![t] = k]
  /\ openTimesGets' = Append(openTimesGets, V1Get("onCreated", "set", t, openTimes))
  /\ UNCHANGED <<now, storeVars, cfgVars, scanVars, chainVars, undoVars, batchVars, probe,
                 manual, reply, seeding>>

\* tabs.onUpdated with changeInfo.url or status "complete" (125-135)
OnUpdatedV1(t) ==
  /\ IsOpen(t)
  /\ Len(openTimesGets) < MaxGets
  /\ \E u \in Urls : tabs' = [tabs EXCEPT ![t].url = u]
  /\ openTimesGets' = Append(openTimesGets, V1Get("onUpdated", "set", t, openTimes))
  /\ UNCHANGED <<now, storeVars, cfgVars, scanVars, chainVars, undoVars, batchVars, probe,
                 manual, reply, seeding>>

\* tabs.onActivated (138-145)
OnActivatedV1(t) ==
  /\ IsOpen(t)
  /\ Len(openTimesGets) < MaxGets
  /\ openTimesGets' = Append(openTimesGets, V1Get("onActivated", "set", t, openTimes))
  /\ UNCHANGED <<now, tabs, storeVars, cfgVars, scanVars, chainVars, undoVars, batchVars,
                 probe, manual, reply, seeding>>

\* the user closes a tab: tabs.onRemoved (148-154)
OnRemovedV1(t) ==
  /\ IsOpen(t)
  /\ Len(openTimesGets) < MaxGets
  /\ tabs' = [tabs EXCEPT ![t] = NoTab("closed")]
  /\ openTimesGets' = Append(openTimesGets, V1Get("onRemoved", "delete", t, openTimes))
  /\ UNCHANGED <<now, storeVars, cfgVars, scanVars, chainVars, undoVars, batchVars, probe,
                 manual, reply, seeding>>

\* the callback of a listener's get: mutate what the get returned and set it
OpenTimesGetCallbackV1 ==
  /\ openTimesGets # << >>
  /\ openTimes' = OtMutate(openTimesGets[1], openTimesGets[1].base, now)
  /\ openTimesGets' = Tail(openTimesGets)
  /\ UNCHANGED <<now, tabs, closedHistory, htmlLogEntries, undoMap, badgeCount, cfgVars,
                 scanVars, chainVars, undoVars, batchVars, probe, manual, reply, seeding>>

\* lines 360-362: /^https?:\/\//i
isHttpLikeV1(url) ==
  \/ PrefixMatchI(UrlChars(url), <<"h","t","t","p",":","/","/">>)
  \/ PrefixMatchI(UrlChars(url), <<"h","t","t","p","s",":","/","/">>)

\* lines 267-269
SkipsTabV1(tab) == tab.pinned \/ tab.audible \/ tab.url = "" \/ ~isHttpLikeV1(tab.url)

\* message runCheckNow: checkTabsNow (221-232), the get of openTimes is issued
RunCheckNowV1 ==
  /\ checkTabsNow
  /\ reply' = OkReply
  /\ UNCHANGED <<now, tabs, storeVars, cfgVars, chainVars, undoVars, batchVars, probe,
                 manual, openTimesGets, seeding>>

\* lines 232-252 and 343-346: the callbacks of the two gets
ScanEvaluateV1(s) ==
  /\ scans[s].phase = "read"
  /\ LET T == ThresholdMs(thresholdHours, thresholdMinutes)
         c == Candidates(scans[s].snap, now, T)
         sc == [scans[s] EXCEPT !.phase = "run", !.at = now, !.T = T,
                                !.tpc = [t \in TabIds |-> IF t \in c THEN "get" ELSE "none"]]
     IN  IF c = {}
         THEN /\ scans' = [scans EXCEPT ![s] = IdleScan]
              /\ checkInProgress' = FALSE
              /\ checkGuardTimer' = Null
         ELSE /\ scans' = [scans EXCEPT ![s] = sc]
              /\ UNCHANGED <<checkInProgress, checkGuardTimer>>
  /\ UNCHANGED <<now, tabs, storeVars, cfgVars, chainVars, undoVars, batchVars, probe,
                 sideVars>>

\* the scan mutates its object and writes it: storage.local.set({ openTimes })
ScanWritesV1(s, t, kind) ==
  LET obj == OtMutate(V1Get("scan", kind, t, << >>), scans[s].snap, now)
  IN  /\ openTimes' = obj
      /\ maybeFinish(s, t, [scans EXCEPT ![s].snap = obj])

\* lines 260-269: the callback of chrome.tabs.get
TabGetCallbackV1(s, t) ==
  /\ scans[s].phase = "run"
  /\ scans[s].tpc[t] = "get"
  /\ IF ~IsOpen(t)
     THEN ScanWritesV1(s, t, "delete")
     ELSE IF SkipsTabV1(tabs[t])
     THEN /\ maybeFinish(s, t, scans)
          /\ UNCHANGED openTimes
     ELSE /\ scans' = [scans EXCEPT ![s].tpc[t] = "script", ![s].turl[t] = tabs[t].url]
          /\ UNCHANGED <<checkInProgress, checkGuardTimer, openTimes>>
  /\ UNCHANGED <<now, tabs, closedHistory, htmlLogEntries, undoMap, badgeCount, cfgVars,
                 chainVars, undoVars, batchVars, probe, sideVars>>

\* lines 277-300 and 331-336: the callback of executeScript(checkTabActivity)
ScriptCallbackV1(s, t) ==
  /\ scans[s].phase = "run"
  /\ scans[s].tpc[t] = "script"
  /\ \E outcome \in (IF IsOpen(t) THEN {"error", "noresult", "metrics"} ELSE {"error"}),
        m \in MetricsSet :
       LET do == AfterScript(outcome, m)
       IN  IF do = "reset"
           THEN ScanWritesV1(s, t, "set")
           ELSE IF do = "drop"
           THEN /\ maybeFinish(s, t, scans)
                /\ UNCHANGED openTimes
           ELSE /\ scans' = [scans EXCEPT ![s].tpc[t] = "remove", ![s].got[t] = outcome]
                /\ UNCHANGED <<checkInProgress, checkGuardTimer, openTimes>>
  /\ UNCHANGED <<now, tabs, closedHistory, htmlLogEntries, undoMap, badgeCount, cfgVars,
                 chainVars, undoVars, batchVars, probe, sideVars>>

\* lines 308-319: the callback of chrome.tabs.remove; the removed tab raises
\* tabs.onRemoved (148-154), whose get is issued before this callback runs
RemoveCallbackV1(s, t) ==
  /\ scans[s].phase = "run"
  /\ scans[s].tpc[t] = "remove"
  /\ \E ok \in (IF IsOpen(t) THEN BOOLEAN ELSE {FALSE}) :
       IF ~ok
       THEN /\ maybeFinish(s, t, scans)
            /\ UNCHANGED <<tabs, openTimes, openTimesGets>>
       ELSE LET obj == MapDel(scans[s].snap, t)
            IN  /\ tabs' = [tabs EXCEPT ![t] = NoTab("closed")]
                /\ openTimesGets' = Append(openTimesGets, V1Get("onRemoved", "delete", t, openTimes))
                /\ openTimes' = obj
                /\ scans' = [scans EXCEPT ![s].snap = obj, ![s].tpc[t] = "session"]
                /\ UNCHANGED <<checkInProgress, checkGuardTimer>>
  /\ UNCHANGED <<now, closedHistory, htmlLogEntries, undoMap, badgeCount, cfgVars,
                 chainVars, undoVars, batchVars, probe, manual, reply, seeding>>

\* lines 320-329: findSessionIdForUrl resolved; addToHistory (450-487),
\* incrementBadgeCount (575-588) and notifyClosed (365-380) are called
SessionCallbackV1(s, t) ==
  /\ scans[s].phase = "run"
  /\ scans[s].tpc[t] = "session"
  /\ \E sid \in {"", "sid"} :
       LET restore == RestoreHint(sid, t)
           url == scans[s].turl[t]
       IN  /\ historyWriteChain' = addToHistory(historyWriteChain, url, restore, closedHistory)
           /\ badgeWriteChain' = incrementBadgeCount(badgeWriteChain, badgeCount)
           /\ notifs' = [notifs EXCEPT ![t] =
                           [st |-> "creating", entry |-> HistoryEntry(url, 0, restore)]]
  /\ maybeFinish(s, t, scans)
  /\ UNCHANGED <<now, tabs, storeVars, cfgVars, openTimesWriteChain, undoWriteChain,
                 logQueue, restoring, reopened, restoredShown, restoreCmd, batchVars, probe, sideVars>>

TabEventsV1 ==
  \/ \E t \in TabIds : OnCreatedV1(t)
  \/ \E t \in TabIds : OnUpdatedV1(t)
  \/ \E t \in TabIds : OnActivatedV1(t)
  \/ \E t \in TabIds : OnRemovedV1(t)
  \/ OpenTimesGetCallbackV1

ScanningV1 ==
  \/ RunCheckNowV1
  \/ \E s \in DOMAIN scans : ScanEvaluateV1(s)
  \/ \E s \in DOMAIN scans, t \in TabIds : TabGetCallbackV1(s, t)
  \/ \E s \in DOMAIN scans, t \in TabIds : ScriptCallbackV1(s, t)
  \/ \E s \in DOMAIN scans, t \in TabIds : RemoveCallbackV1(s, t)
  \/ \E s \in DOMAIN scans, t \in TabIds : SessionCallbackV1(s, t)

\* a tab this variant may close: its isHttpLike accepts the URL
ClosableV1 == Tab("https://a.test/", FALSE, FALSE)

\* tabs tracked since StartMs and stale under threshold 00:00
InitV1 == InitWith({EndMs}, ScanTabs, {ClosableV1}, {<<0, 0>>}, {<< >>}, {NoProbe})

NextV1 ==
  \/ TabEventsV1
  \/ ScanningV1

SpecV1 == InitV1 /\ [][NextV1]_vars

\* C20: in Chrome-ext-chat5/background.js no update of the open-time map is
\* lost when lifecycle events and a scan overlap: once every callback has run,
\* each open tab has its entry (the one its creation or its last event set).
C20_V1UpdatesNotLost ==
  (openTimesGets = << >> /\ \A s \in DOMAIN scans : scans[s].phase = "idle") =>
    \A t \in TabIds : IsOpen(t) => t \in DOMAIN openTimes
\* ---- install and start-up with tab events
\* the worker starts with any of the open tabs tracked
InitSeed ==
  InitTracked({EndMs}, ScanTabs, {Closable}, {<<0, 1>>}, {<< >>}, {NoProbe}, ScanIds,
              SUBSET ScanTabs)

NextSeed ==
  \/ TabEvents
  \/ OpenTimesCallback
  \/ Seeding
  \/ EnsureCallback

SpecSeed == InitSeed /\ [][NextSeed]_vars

\* the step in which the seeding of onInstalled or of onStartup writes the map
SeedingWrites ==
  \/ /\ seeding # << >>
     /\ seeding[1].on = "onInstalled"
     /\ seeding' = Tail(seeding)
  \/ /\ Running(openTimesWriteChain)
     /\ openTimesWriteChain[1].kind = "seed"
     /\ Len(openTimesWriteChain') < Len(openTimesWriteChain)

\* C21: the seeding on install and on start-up only adds entries: every entry
\* the open-time map holds when the seeding writes, among them the entries
\* written by tab events since the tabs were queried, is still there with its
\* value, and an added entry belongs to a tab the query returned.
C21_SeedingOnlyAdds ==
  [][SeedingWrites =>
       /\ \A t \in DOMAIN openTimes :
            t \in DOMAIN openTimes' /\ openTimes'[t] = openTimes[t]
       /\ \A t \in (DOMAIN openTimes') \ (DOMAIN openTimes) :
            openTimes'[t] \in {now, StartMs + TickMs}]_vars
\* ---- closed tabs and the open-time map
\* C22: once a tab has been removed and every queued operation on the
\* open-time map has completed, with no scan under way, the map has no entry
\* for the tab, also when a scan was processing the tab as it was removed.
C22_RemovedTabHasNoEntry ==
  (openTimesWriteChain = << >> /\ \A s \in DOMAIN scans : scans[s].phase = "idle") =>
    \A t \in TabIds : tabs[t].url = "closed" => t \notin DOMAIN openTimes
\* ---- the outcomes of the scan for one candidate
\* the step in which the callback of executeScript runs for tab t of activation
\* s without metrics: with an error, or with no result
NoMetrics(s, t) ==
  /\ scans[s].phase = "run"
  /\ scans[s].tpc[t] = "script"
  /\ \/ scans'[s].tpc[t] = "none"
     \/ scans'[s].tpc[t] = "chain" /\ scans'[s].got[t] = "error"

\* C23: when executeScript fails or returns no result for a candidate, the
\* scan submits the reset of the tab's open time to the current time.
C23_NoMetricsResetsOpenTime ==
  [][\A s \in DOMAIN scans, t \in TabIds :
       NoMetrics(s, t) =>
         /\ Len(openTimesWriteChain') = Len(openTimesWriteChain) + 1
         /\ LET op == openTimesWriteChain'[Len(openTimesWriteChain')]
            IN  op.kind = "set" /\ op.key = t]_vars
\* the step in which the callback of chrome.tabs.remove runs for tab t of
\* activation s and the host has not closed the tab
CloseFails(s, t) ==
  /\ scans[s].phase = "run"
  /\ scans[s].tpc[t] = "remove"
  /\ scans'[s].tpc[t] # "remove"
  /\ tabs'[t] = tabs[t]

ExistenceFails(s, t) ==
  /\ scans[s].phase = "run"
  /\ scans[s].tpc[t] = "get"
  /\ ~IsOpen(t)
  /\ scans'[s].tpc[t] # "get"

\* the step in which the delete a scan submitted for tab t writes the map
ScanDeleteWrites(t) ==
  /\ Running(openTimesWriteChain)
  /\ openTimesWriteChain[1].kind = "delete"
  /\ openTimesWriteChain[1].key = t
  /\ openTimesWriteChain[1].fin # 0
  /\ Len(openTimesWriteChain') < Len(openTimesWriteChain)

\* C25: when chrome.tabs.get finds no tab for a candidate, the scan submits
\* the delete of the tab's open-time entry and, when that delete writes, the
\* entry is gone; the scan requests no metrics and no close for the tab and
\* records nothing for it.
C25_MissingTabEntryRemoved ==
  [][\A s \in DOMAIN scans, t \in TabIds :
       /\ ExistenceFails(s, t) =>
            /\ Len(openTimesWriteChain') = Len(openTimesWriteChain) + 1
            /\ LET op == openTimesWriteChain'[Len(openTimesWriteChain')]
               IN  op.kind = "delete" /\ op.key = t
            /\ scans'[s].tpc[t] = "chain"
            /\ UNCHANGED <<tabs, storeVars, historyWriteChain, badgeWriteChain,
                           undoWriteChain, logQueue, undoVars, batchVars>>
       /\ ScanDeleteWrites(t) =>
            /\ t \notin DOMAIN openTimes'
            /\ scans'[openTimesWriteChain[1].fin].tpc[t] = "none"
            /\ UNCHANGED <<tabs, closedHistory, badgeCount, undoMap, historyWriteChain,
                           badgeWriteChain, undoWriteChain, undoVars, batchVars>>]_vars

\* a scan found no tab for a candidate and its delete of the entry is running,
\* with no metrics requested and nothing recorded for the tab
C25_Witness ==
  \E s \in DOMAIN scans, t \in TabIds :
    /\ scans[s].phase = "run"
    /\ scans[s].tpc[t] = "chain"
    /\ tabs[t].url = "closed"
    /\ Running(openTimesWriteChain)
    /\ openTimesWriteChain[1] =
         [OtOp("delete", t, s) EXCEPT !.stage = "read", !.base = openTimes]
    /\ t \in Candidates(scans[s].snap, scans[s].at, scans[s].T)
    /\ historyWriteChain = << >>
    /\ notifs[t] = NoNotif
\* the step in which the callback of executeScript runs for tab t of activation
\* s with runtime.lastError set
ScriptFails(s, t) ==
  /\ scans[s].phase = "run"
  /\ scans[s].tpc[t] = "script"
  /\ scans'[s].tpc[t] = "chain"
  /\ scans'[s].got[t] = "error"

\* the step appends to the open-time chain one operation of this kind for tab t
Submits(kind, t) ==
  /\ Len(openTimesWriteChain') = Len(openTimesWriteChain) + 1
  /\ LET op == openTimesWriteChain'[Len(openTimesWriteChain')]
     IN  op.kind = kind /\ op.key = t

\* C26 as stated: after a failed tab query, a failed close and a failed script
\* injection alike the scan submits the refresh of the tab's open time.
C26_FailuresRefreshEntry ==
  [][\A s \in DOMAIN scans, t \in TabIds :
       (ExistenceFails(s, t) \/ CloseFails(s, t) \/ ScriptFails(s, t)) =>
         Submits("set", t)]_vars

\* C26 amended: a failed script injection submits the refresh of the open
\* time; a failed close submits nothing and leaves the map as it is; a failed
\* tab query submits the delete of the entry.
C26_FailuresByKind ==
  [][\A s \in DOMAIN scans, t \in TabIds :
       /\ ScriptFails(s, t) => Submits("set", t)
       /\ CloseFails(s, t) => UNCHANGED <<openTimes, openTimesWriteChain>>
       /\ ExistenceFails(s, t) => Submits("delete", t)]_vars

\* the refresh a scan submitted after a failed injection is running
C26_Witness ==
  \E s \in DOMAIN scans, t \in TabIds :
    /\ scans[s].phase = "run"
    /\ scans[s].tpc[t] = "chain"
    /\ scans[s].got[t] = "error"
    /\ Running(openTimesWriteChain)
    /\ openTimesWriteChain[1].kind = "set"
    /\ openTimesWriteChain[1].key = t
    /\ openTimesWriteChain[1].fin = s
\* the step in which the callback of executeScript runs for tab t of activation
\* s with metrics that isRead accepts
JudgedRead(s, t) ==
  /\ scans[s].phase = "run"
  /\ scans[s].tpc[t] = "script"
  /\ scans'[s].tpc[t] = "chain"
  /\ scans'[s].got[t] = "metrics"

\* the step in which the set a scan submitted for tab t writes the map
ScanSetWrites(t) ==
  /\ Running(openTimesWriteChain)
  /\ openTimesWriteChain[1].kind = "set"
  /\ openTimesWriteChain[1].key = t
  /\ openTimesWriteChain[1].fin # 0
  /\ Len(openTimesWriteChain') < Len(openTimesWriteChain)

\* C27: when the scan judges a tab read it does not close it and submits the
\* set of its open time, leaving history, badge counter and undo map alone;
\* when that set writes, the entry is the current time, and from then the tab
\* is a candidate exactly at the times later by more than the threshold.
C27_ReadTabIsReset ==
  [][\A s \in DOMAIN scans, t \in TabIds :
       /\ JudgedRead(s, t) =>
            /\ Submits("set", t)
            /\ UNCHANGED <<tabs, storeVars, historyWriteChain, badgeWriteChain,
                           undoWriteChain, logQueue, undoVars, batchVars>>
       /\ ScanSetWrites(t) =>
            /\ t \in DOMAIN openTimes'
            /\ openTimes'[t] = now
            /\ \A k \in 0..(MaxTicks + 1) :
                 t \in Candidates(openTimes', now + k * TickMs,
                                 ThresholdMs(thresholdHours, thresholdMinutes))
                   <=> k * TickMs > ThresholdMs(thresholdHours, thresholdMinutes)
            /\ UNCHANGED <<tabs, closedHistory, badgeCount, undoMap, historyWriteChain,
                           badgeWriteChain, undoWriteChain, undoVars, batchVars>>]_vars

\* the set a scan submitted for a tab it judged read is running and the tab
\* is open
C27_Witness ==
  \E s \in DOMAIN scans, t \in TabIds :
    /\ scans[s].phase = "run"
    /\ scans[s].tpc[t] = "chain"
    /\ scans[s].got[t] = "metrics"
    /\ IsOpen(t)
    /\ Running(openTimesWriteChain)
    /\ openTimesWriteChain[1].kind = "set"
    /\ openTimesWriteChain[1].key = t
    /\ openTimesWriteChain[1].fin = s
\* ---- the alarm period: thresholds on both sides of every rounding and
\* clamping step, saved while earlier reads of ensureCheckAlarm are outstanding
PeriodChoices == {<<0, 0>>, <<0, 1>>, <<0, 4>>, <<0, 5>>, <<4, 0>>, <<4, 1>>,
                  <<DEFAULT_THRESHOLD_HOURS, DEFAULT_THRESHOLD_MINUTES>>}

InitPeriod == InitWith({StartMs}, {}, {Closable}, {Null, <<0, 0>>}, {<< >>}, {NoProbe})

NextPeriod ==
  \/ \E hm \in PeriodChoices : SaveThresholdWithin(hm, MaxEnsures)
  \/ EnsureCallback
  \/ OnInstalled
  \/ InstalledQueryCallback

SpecPeriod == InitPeriod /\ [][NextPeriod]_vars

\* max(1, min(60, ceil(M / 4)))
ClaimedPeriod(M) ==
  LET ceil == CHOOSE q \in 0..M : 4 * q >= M /\ 4 * q < M + 4
  IN  IF ceil < 1 THEN 1 ELSE IF ceil > 60 THEN 60 ELSE ceil

\* C28: computeCheckPeriodMinutes is max(1, min(60, ceil(M / 4))) for every
\* threshold of M > 0 minutes and 60 for the unset threshold; and when no read
\* of ensureCheckAlarm is outstanding, the alarm has the period of the stored
\* threshold, and there is no alarm exactly when the threshold is 0 minutes.
C28_AlarmPeriodFollowsThreshold ==
  /\ \A hm \in PeriodChoices :
       hm[1] * 60 + hm[2] > 0 =>
         computeCheckPeriodMinutes(hm[1], hm[2]) = ClaimedPeriod(hm[1] * 60 + hm[2])
  /\ AlarmFor(Null, Null) = Some(60)
  /\ ensureQueue = << >> =>
       LET M == CfgHours(thresholdHours) * 60 + CfgMinutes(thresholdMinutes)
       IN  /\ alarm = Null <=> M = 0
           /\ M > 0 => alarm = Some(ClaimedPeriod(M))
           /\ (thresholdHours = Null /\ thresholdMinutes = Null) => alarm = Some(60)

\* a threshold of 5 minutes was saved, every read has come back, and the
\* alarm has a period of 2 minutes
C28_Witness ==
  /\ ensureQueue = << >>
  /\ thresholdHours = Some(0)
  /\ thresholdMinutes = Some(5)
  /\ alarm = Some(2)
\* ---- the badge counter: the closures have happened, their increments and
\* history writes are queued, and the popup resets the badge
NextBadge ==
  \/ HistoryWrites
  \/ Badge

SpecBadge == InitCommands /\ [][NextBadge]_vars

\* resetBadge is the one command of SpecBadge, so its response tells that it ran
ResetSeen == reply = OkReply

\* C29: once the badge chain has settled the stored counter is the number of
\* closures since the last resetBadge: every closure of SpecBadge precedes
\* every resetBadge, so the counter is 0 when a resetBadge ran and the number
\* of closures when none did.
C29_BadgeCountsClosuresSinceReset ==
  badgeWriteChain = << >> =>
    badgeCount = IF ResetSeen THEN 0 ELSE Cardinality(CloseTabs)
\* the entries of a history list
Entries(list) == {list[i] : i \in 1..Len(list)}

\* the step in which restoreClosed writes the list back
RestoreWrites == restoreCmd.st \in {"session", "create"} /\ restoreCmd'.st = "idle"

\* an entry leaves the list only by clearHistory, as the entry a restoreClosed
\* restored, or by the cap when an append finds the list full
NoEntryLost ==
  \A e \in Entries(closedHistory) \ Entries(closedHistory') :
    \/ ClearHistory
    \/ RestoreWrites /\ HasIndex(restoreCmd.list, restoreCmd.idx)
                     /\ e = restoreCmd.list[restoreCmd.idx + 1]
    \/ Running(historyWriteChain) /\ HistoryCallback /\ Len(closedHistory) >= MAX_HISTORY

\* an entry enters the list only as the entry of the append that writes
NoEntryBack ==
  \A e \in Entries(closedHistory') \ Entries(closedHistory) :
    Running(historyWriteChain) /\ HistoryCallback /\ e = historyWriteChain[1].entry

\* C30: the history list loses no update when an append of a closure overlaps
\* with restoreClosed or clearHistory: no step drops an entry that was not
\* restored, cleared or evicted by the cap, and no step brings back an entry
\* that a clearHistory or a restoreClosed removed.
C30_HistoryUpdatesNotLost == [][NoEntryLost /\ NoEntryBack]_vars
\* the export entries of a history list, in its order
ExportEntries(list) == [i \in DOMAIN list |-> BatchEntry(list[i])]

\* every append and every request on htmlLogEntries has come back
HistorySettled == historyWriteChain = << >> /\ logQueue = << >>

UndoCompleted(n) ==
  /\ reopened'[n] = reopened[n] + 1
  /\ restoring'[n].stage = "none"
  /\ notifs'[n].st # "shown"
  /\ restoredShown'[n] = restoredShown[n] + 1

\* C32: Undo on an existing UndoEntry reopens the tab exactly once: with a
\* session handle sessions.restore is called and, only when it fails,
\* tabs.create with the recorded URL; without a handle tabs.create is called
\* at once; and when the reopen is over the notification of the closure is
\* cleared and a restored confirmation is shown, once.
C32_UndoReopensOnce ==
  /\ [](\A n \in TabIds : reopened[n] <= 1 /\ restoredShown[n] = reopened[n])
  /\ [][\A n \in TabIds :
         /\ (restoring[n].stage = "none" /\ restoring'[n].stage # "none") =>
              /\ n \in DOMAIN undoMap
              /\ restoring'[n].stage =
                   (IF undoMap[n].restore.sessionId # "" THEN "session" ELSE "create")
              /\ restoring'[n].url = undoMap[n].url
              /\ restoring'[n].stage = "create" => restoring'[n].opts.url = undoMap[n].url
              /\ reopened' = reopened
         /\ (restoring[n].stage = "session" /\ restoring'[n] # restoring[n]) =>
              \/ UndoCompleted(n)
              \/ /\ restoring'[n].stage = "create"
                 /\ restoring'[n].opts.url = restoring[n].url
                 /\ reopened' = reopened
                 /\ notifs' = notifs
         /\ (restoring[n].stage = "create" /\ restoring'[n] # restoring[n]) => UndoCompleted(n)
         /\ reopened'[n] # reopened[n] => restoring[n].stage \in {"session", "create"}
         /\ restoredShown'[n] # restoredShown[n] => reopened'[n] # reopened[n]]_vars

\* sessions.restore failed for an entry with a handle and the tabs.create of
\* the fallback is outstanding
C32_Witness ==
  \E n \in TabIds :
    /\ restoring[n].stage = "create"
    /\ restoring[n].restore.sessionId # ""
    /\ reopened[n] = 0
\* C33: while the tabs.create of a restore's fallback is outstanding, by Undo
\* or from the history panel, its options carry the window id and the index
\* that the closure recorded for the tab.
C33_FallbackUsesRecordedPosition ==
  /\ \A n \in TabIds :
       restoring[n].stage = "create" =>
         restoring[n].opts = createOptsFromPrev(restoring[n].url, restoring[n].restore)
  /\ restoreCmd.st = "create" =>
       LET entry == restoreCmd.list[restoreCmd.idx + 1]
       IN  restoreCmd.opts = createOptsFromPrev(entry.url, entry.restore)
\* the entries handed to the first adapter, batch after batch
RECURSIVE EmailEntries(_)
EmailEntries(out) ==
  IF out = << >> THEN << >>
  ELSE IF out[1].to = "email" THEN out[1].entries \o EmailEntries(Tail(out))
  ELSE EmailEntries(Tail(out))

\* the adapter called by the i-th delivery when flushes do not interleave
AdapterInTurn(i) ==
  IF i % 3 = 1 THEN "email" ELSE IF i % 3 = 2 THEN "telegram" ELSE "export"

\* C34: every entry enqueued by scheduleBatchProcessing is in the pending list
\* or in exactly one batch handed to the adapters, never in both and never in
\* two batches; a pending entry always has a flush ahead of it, the armed
\* timer or a queued flush, also when it was enqueued during a flush; and the
\* deliveries of two flushes never interleave: only the first flush of the
\* chain is under way, and the deliveries come as email, telegram, export of
\* one batch, then of the next.
C34_EachEntryInOneBatch ==
  /\ \A e \in Entries(htmlLogEntries) \cup Entries(pendingBatchEntries)
              \cup Entries(EmailEntries(delivered)) :
       Occurrences(pendingBatchEntries, e) + Occurrences(EmailEntries(delivered), e)
         = Occurrences(htmlLogEntries, e)
  /\ pendingBatchEntries # << >> =>
       \/ batchFlushTimer /\ flushTimers = 1
       \/ \E i \in DOMAIN batchFlushChain : batchFlushChain[i].stage = "queued"
  /\ \A i \in 2..Len(batchFlushChain) : batchFlushChain[i].stage = "queued"
  /\ \A i \in DOMAIN delivered :
       /\ delivered[i].to = AdapterInTurn(i)
       /\ delivered[i].to # "email" => delivered[i].entries = delivered[i - 1].entries
       /\ (delivered[i].to = "email" /\ i < Len(delivered)) =>
            batchFlushChain # << >> \/ Len(delivered) >= i + 2

\* an entry was enqueued while the first flush was under way and went out in
\* the second batch, after the export of the first
C34_Witness ==
  /\ Len(delivered) >= 4
  /\ delivered[4].to = "email"
  /\ Len(EmailEntries(delivered)) = Cardinality(TabIds)
  /\ pendingBatchEntries = << >>
\* the pending list is handed to the first adapter as one batch and is empty then
HandsOverPending ==
  /\ pendingBatchEntries' = << >>
  /\ pendingBatchEntries # << >> =>
       /\ Len(delivered') = Len(delivered) + 1
       /\ delivered'[Len(delivered')] =
            [to |-> "email", entries |-> SortByTs(pendingBatchEntries)]

\* the armed flush timer is cancelled
TimerCancelled == ~batchFlushTimer' /\ flushTimers' = 0

\* C35 as claimed: onSuspend cancels the armed timer and its flush hands over
\* every pending entry at once, leaving the pending list empty.
C35_SuspendFlushesAtOnce == [][OnSuspend => (TimerCancelled /\ HandsOverPending)]_vars

\* C35: onSuspend cancels the armed timer and puts a flush on batchFlushChain.
\* When no flush is under way it runs at once, hands over every pending entry
\* as one batch and leaves the pending list empty; when a flush is under way
\* the entries stay pending, nothing is delivered by onSuspend, and the queued
\* flush hands them over as one batch when the export of the flush under way
\* has returned.
C35_SuspendFlushIsChained ==
  [][/\ OnSuspend =>
          /\ TimerCancelled
          /\ IF batchFlushChain = << >>
             THEN HandsOverPending
             ELSE /\ pendingBatchEntries' = pendingBatchEntries
                  /\ delivered' = delivered
                  /\ batchFlushChain' =
                       Append(batchFlushChain,
                              [stage |-> "queued", entries |-> << >>, failed |-> {}])
     /\ (Len(batchFlushChain) >= 2 /\ Len(batchFlushChain') < Len(batchFlushChain)) =>
          /\ batchFlushChain[1].stage = "export"
          /\ HandsOverPending]_vars

\* a flush is under way, entries are pending behind it with no timer armed,
\* and the flush of onSuspend is queued
C35_Witness ==
  /\ Len(batchFlushChain) = 2
  /\ batchFlushChain[1].stage \in {"email", "telegram", "export"}
  /\ batchFlushChain[2].stage = "queued"
  /\ pendingBatchEntries # << >>
  /\ ~batchFlushTimer
\* ---- closures and their deliveries: the history and badge writes and the
\* notifications of the closures beside the flushes, whose adapters may fail
NextDelivery ==
  \/ HistoryWrites
  \/ Batching
  \/ BadgeCallback
  \/ BadgeSetCallback
  \/ \E n \in TabIds : NotificationCreated(n)
  \/ UndoCallback

SpecDelivery == InitManual /\ [][NextDelivery]_vars

\* the step in which adapter `a` of the flush under way returns with a failure
AdapterFails(a) ==
  /\ batchFlushChain # << >>
  /\ batchFlushChain[1].stage = a
  /\ batchFlushChain' # << >>
  /\ a \notin batchFlushChain[1].failed
  /\ a \in batchFlushChain'[1].failed

\* the adapter `next` is called with the batch of the flush under way
CallsAdapter(next) ==
  /\ batchFlushChain'[1].stage = next
  /\ delivered' = Append(delivered, [to |-> next, entries |-> batchFlushChain[1].entries])

\* every write and callback behind the closures and their deliveries is over
DeliverySettled ==
  /\ HistorySettled
  /\ badgeWriteChain = << >>
  /\ undoWriteChain = << >>
  /\ batchFlushChain = << >>
  /\ flushTimers = 0
  /\ \A n \in TabIds : notifs[n].st # "creating"

\* C36: in a flush the adapters are called one after the other whatever the
\* outcome of the one before: a failed email delivery is followed by the chat
\* delivery and the export of the same batch, a failed chat delivery by the
\* export; every finished flush has called all three.  No step of a flush
\* touches the history list, the badge counter, the notifications or the undo
\* map, and when everything has settled each closure has its history entry,
\* its badge increment and its notification, whatever failed.
C36_DeliveriesIndependent ==
  /\ [](batchFlushChain = << >> =>
          /\ Len(delivered) % 3 = 0
          /\ \A i \in DOMAIN delivered : delivered[i].to = AdapterInTurn(i))
  /\ [](DeliverySettled =>
          /\ Len(closedHistory) = Cardinality(CloseTabs)
          /\ badgeCount = Cardinality(CloseTabs)
          /\ \A n \in CloseTabs : notifs[n].st = "shown" /\ n \in DOMAIN undoMap)
  /\ [][/\ AdapterFails("email") => CallsAdapter("telegram")
        /\ AdapterFails("telegram") => CallsAdapter("export")
        /\ (batchFlushChain' # batchFlushChain \/ delivered' # delivered) =>
             UNCHANGED <<closedHistory, badgeCount, undoMap, notifs, historyWriteChain,
                         badgeWriteChain, undoWriteChain>>]_vars

\* the email and the chat delivery of a batch failed and the export is called
C36_Witness ==
  /\ batchFlushChain # << >>
  /\ batchFlushChain[1].stage = "export"
  /\ batchFlushChain[1].failed = {"email", "telegram"}
  /\ delivered[Len(delivered)].to = "export"
\* the step in which activation s issues chrome.tabs.remove for tab t
CloseIssued(s, t) ==
  /\ scans[s].phase = "run"
  /\ scans[s].tpc[t] = "script"
  /\ scans'[s].tpc[t] = "remove"

\* C37: a scan issues the close request for a tab only while the tab's stored
\* open time is still older than the threshold, so an onUpdated or onActivated
\* whose write came after the scan read its snapshot keeps the scan from
\* closing the tab.
C37_CloseOnlyIfStillStale ==
  [][\A s \in DOMAIN scans, t \in TabIds :
       CloseIssued(s, t) =>
         /\ t \in DOMAIN openTimes
         /\ IsCandidate(openTimes[t], now, scans[s].T)]_vars
\* ---- one page: loads, the user's clicks and keys, and the scans that take
\* its metrics
InitPage == InitWith({StartMs}, {}, TabKinds, {<<0, 1>>}, {<< >>}, {NoProbe})

NextPage ==
  \/ PageLoads
  \/ UserTouches
  \/ CollectMetrics

SpecPage == InitPage /\ [][NextPage]_vars

\* the step in which a scan takes the metrics of the page
Collects == probe'.win.collected = probe.win.collected + 1

\* C38: the metrics a scan takes say hasInteracted only when an earlier scan
\* took metrics from the same page load, which is when the tracker was
\* injected, and the user touched the page since; the first scan of a page
\* load gets hasInteracted = false and judges a short page unread, also when
\* the user clicked or typed on it before.
C38_FirstScanSeesNoInteraction ==
  [][Collects =>
       /\ probe'.m.hasInteracted =>
            (probe.win.collected >= 1 /\ probe.win.initialized /\ probe.win.touched)
       /\ probe.win.collected = 0 =>
            /\ ~probe'.m.hasInteracted
            /\ isShortPage(probe'.m) => probe'.out = "unread"]_vars

\* the user touched a short page before its first scan, and the scan judged
\* it unread
C38_Witness ==
  /\ probe.win.collected = 1
  /\ probe.win.touched
  /\ isShortPage(probe.m)
  /\ probe.out = "unread"
\* the step in which the history panel's restore of the closure of tab t is done
PanelReopens(t) ==
  /\ restoreCmd.st \in {"session", "create"}
  /\ restoreCmd'.st = "idle"
  /\ reopened'[0] = reopened[0] + 1
  /\ restoreCmd.list[restoreCmd.idx + 1].restore.prev.index = t

\* C39: a closure is reversed at most once across the two restore paths: when
\* the history panel reopens the tab of a closure, the Undo button of that
\* closure has not reopened it and is not about to, and the closure's
\* UndoEntry is not left behind for a later click.
C39_ClosureReversedOnce ==
  [][\A t \in TabIds :
       PanelReopens(t) =>
         /\ reopened[t] = 0
         /\ restoring[t].stage = "none"
         /\ t \notin DOMAIN undoMap']_vars
\* the last response is one of getClosedHistory: the list the popup renders
ShowsHistory == reply.ok /\ Len(reply.data) = 2

ShownHistory == reply.data[1]

\* the step in which restoreClosed with index idx reads the history list
ReadsForRestore(idx) ==
  /\ restoreCmd.st = "idle"
  /\ restoreCmd'.st = "get"
  /\ restoreCmd'.idx = idx

\* C40: restoreClosed with index i restores and removes the entry the popup
\* showed at position i in its last getClosedHistory snapshot, also when a
\* closure was added to the list after that snapshot: the list the handler
\* reads holds, at i, the entry the snapshot holds at i.
C40_RestoresEntryShown ==
  [][\A idx \in IndexChoices :
       (ReadsForRestore(idx) /\ ShowsHistory /\ HasIndex(ShownHistory, idx)) =>
         /\ HasIndex(restoreCmd'.list, idx)
         /\ restoreCmd'.list[idx + 1] = ShownHistory[idx + 1]]_vars
====
